---- MODULE Spec2Model ----
(***************************************************************************)
(* Model of the report lifecycle of ReportsService: parse-result ingestion *)
(* (PUT /reports/{id}/parsed), payment creation (POST                     *)
(* /reports/{id}/payment) and payment webhook reconciliation (POST         *)
(* /yookassa/webhook), over the reports, report_rows and promocodes        *)
(* tables.  Every handler is a small process: one action per awaited       *)
(* statement, so that overlapping requests interleave exactly where the    *)
(* asyncio handlers can be suspended.                                      *)
(*                                                                         *)
(* Money is counted in kopecks (NUMERIC(7,2) * 100).  Timestamps are       *)
(* points of one abstract integer clock.                                   *)
(***************************************************************************)
EXTENDS Integers, Sequences, FiniteSets, TLC

\* ---------------------------------------------------------------- bounds
MaxProcs == 2          \* request slots that may be in flight together
MaxRequests == 3       \* requests started in one behaviour
MaxNow == 1            \* last instant of the clock
MaxAccessRequests == 2 \* requests started in one behaviour of SpecAccess

\* ------------------------------------------------------------- null values
Null == -1             \* SQL NULL / None of a numeric or timestamp column
NullStr == "null"      \* SQL NULL / None of a text column
NoPeriod == <<>>       \* period_start and period_end both NULL

\* ------------------------------------------------------------ enumerations
ParseStatus == {"in_progress", "parsed", "not_parsed"}
PaymentStatus == {"not_payed", "in_progress", "payed", "error"}
YookassaEvent == {"payment.waiting_for_capture", "payment.succeeded",
                  "payment.canceled", "refund.succeeded"}
PromocodeUsage == {"not_set", "success", "not_exist", "expired"}
USER_PAYMENT_CANCELLATION_REASONS == {"expired_on_confirmation"}
PENDING_STATUS == "pending"

\* ------------------------------------------------- sample inputs (small sets)
Procs == 1..MaxProcs
Users == {"u1", "u2"}
ReportIds == {"r1", "r2"}
UnknownReportId == "r9"            \* an id no report row ever carries
PromoStrings == {"promo123", "OTHERCODE"}   \* ?promo= values as sent
Reasons == {"expired_on_confirmation", "card_expired"}
GatewayAnswers == {"ok", "bad_status", "not_pending", "no_confirmation_url"}
RowCounts == {0, 11, 31}
Periods == {<<2020, 2020>>, <<2020, 2021>>}

\* str.upper() on the sample promo strings
Upper(s) ==
    CASE s = "promo123" -> "PROMO123"
      [] s = "OTHERCODE" -> "OTHERCODE"
      [] OTHER -> s

\* ---------------------------------------------------------- pricing engine
\* PriceConfig.strategies, ordered by started_at; the four started_at dates
\* are the instants 0, 1, 2, 3 of the abstract clock shifted by one.
Strategies ==
    << [started_at |-> 1, calculator |-> "thresholds",
        n_rows_thresholds |-> <<>>, prices |-> <<0>>],
       [started_at |-> 2, calculator |-> "thresholds",
        n_rows_thresholds |-> <<10, 30, 100>>,
        prices |-> <<0, 10000, 20000, 30000>>],
       [started_at |-> 3, calculator |-> "thresholds",
        n_rows_thresholds |-> <<10, 30, 100>>,
        prices |-> <<4900, 14900, 24900, 34900>>],
       [started_at |-> 4, calculator |-> "thresholds",
        n_rows_thresholds |-> <<10, 30, 100>>,
        prices |-> <<9900, 19900, 29900, 39900>>] >>

IsSorted(s) == \A i \in 1..(Len(s) - 1) : s[i] <= s[i + 1]

\* a calculator that moves on to the next price at the threshold itself
thresholds_calculator_below(n_rows, n_rows_thresholds, prices) ==
    IF Len(n_rows_thresholds) # Len(prices) - 1
    THEN [err |-> TRUE, price |-> Null]
    ELSE IF ~IsSorted(n_rows_thresholds)
    THEN [err |-> TRUE, price |-> Null]
    ELSE LET hits == {i \in 1..Len(n_rows_thresholds) :
                         n_rows < n_rows_thresholds[i]}
         IN  IF hits # {}
             THEN [err |-> FALSE,
                   price |-> prices[CHOOSE i \in hits :
                                       \A j \in hits : i <= j]]
             ELSE [err |-> FALSE, price |-> prices[Len(prices)]]

\* thresholds_calculator: [err, price]
thresholds_calculator(n_rows, n_rows_thresholds, prices) ==
    IF Len(n_rows_thresholds) # Len(prices) - 1
    THEN [err |-> TRUE, price |-> Null]
    ELSE IF ~IsSorted(n_rows_thresholds)
    THEN [err |-> TRUE, price |-> Null]
    ELSE LET hits == {i \in 1..Len(n_rows_thresholds) :
                         n_rows <= n_rows_thresholds[i]}
         IN  IF hits # {}
             THEN [err |-> FALSE,
                   price |-> prices[CHOOSE i \in hits :
                                       \A j \in hits : i <= j]]
             ELSE [err |-> FALSE, price |-> prices[Len(prices)]]

\* a calc that walks the strategies from the first one
calc_first_match(n_rows, created_at) ==
    LET ok == {i \in 1..Len(Strategies) :
                  Strategies[i].started_at <= created_at}
    IN  IF ok = {}
        THEN [err |-> TRUE, price |-> Null]
        ELSE LET s == Strategies[CHOOSE i \in ok : \A j \in ok : i <= j]
             IN  thresholds_calculator(n_rows, s.n_rows_thresholds, s.prices)

\* PriceService.calc: the last strategy with started_at <= created_at
calc(n_rows, created_at) ==
    LET ok == {i \in 1..Len(Strategies) :
                  Strategies[i].started_at <= created_at}
    IN  IF ok = {}
        THEN [err |-> TRUE, price |-> Null]
        ELSE LET s == Strategies[CHOOSE i \in ok : \A j \in ok : j <= i]
             IN  thresholds_calculator(n_rows, s.n_rows_thresholds, s.prices)

\* a clamp that lets the newly computed price through
ClampPrice_unclamped(stored, computed) == computed

\* the clamp of upload_parsing_result: a stored price is never exceeded
ClampPrice(stored, computed) ==
    IF stored # Null /\ stored < computed THEN stored ELSE computed

\* round(float(price) * (1 - discount / 100), 2), in kopecks.  For the prices
\* and discounts of the model the product is never a rounding tie.
FinalPrice(price, discount) == (price * (100 - discount) + 50) \div 100

\* get_price looking at the validity window before the usages and the owner
get_price_expiry_first(report_user, report_price, found, promocode, promocode_not_exist, t) ==
    LET usage ==
            IF ~found
            THEN IF promocode_not_exist THEN "not_exist" ELSE "not_set"
            ELSE IF promocode.valid_from > t \/ promocode.valid_to < t
            THEN "expired"
            ELSE IF promocode.rest_usages <= 0
                     \/ (promocode.user_id # NullStr
                         /\ promocode.user_id # report_user)
            THEN "not_exist"
            ELSE "success"
        discount == IF usage = "success" THEN promocode.discount ELSE 0
    IN  [start_price |-> report_price,
         final_price |-> FinalPrice(report_price, discount),
         discount |-> discount,
         promocode_usage |-> usage]

\* PriceService.get_price: classification of the promo code and the price.
\* The Price returned has the four fields the model class declares; the
\* used_promocode handed to its constructor is not one of them
get_price(report_user, report_price, found, promocode, promocode_not_exist, t) ==
    LET usage ==
            IF ~found
            THEN IF promocode_not_exist THEN "not_exist" ELSE "not_set"
            ELSE IF promocode.rest_usages <= 0
                     \/ (promocode.user_id # NullStr
                         /\ promocode.user_id # report_user)
            THEN "not_exist"
            ELSE IF promocode.valid_from > t \/ promocode.valid_to < t
            THEN "expired"
            ELSE "success"
        discount == IF usage = "success" THEN promocode.discount ELSE 0
    IN  [start_price |-> report_price,
         final_price |-> FinalPrice(report_price, discount),
         discount |-> discount,
         promocode_usage |-> usage]

\* ------------------------------------------------------------------ state
VARIABLES
    reports,      \* reports table: report_id -> row
    rows,         \* report_rows table: report_id -> set of rows, each with row_n
    promocodes,   \* promocodes table: promocode -> row
    now,          \* utc_now()
    req,          \* request slot -> handler position and locals
    gwRequests,   \* requests received by the payment gateway
    payments,     \* payments the gateway created: metadata it echoes back
    adj,          \* history: adjustments issued per promo code
    rest0,        \* history: provisioned rest_usages per promo code
    lowest,       \* history: lowest non-null price stored so far per report
    started,      \* requests started so far
    blobs,        \* object storage: the keys written and what was written
    queue         \* parse queue: the messages sent, in order

vars == <<reports, rows, promocodes, now, req, gwRequests, payments, adj,
          rest0, lowest, started, blobs, queue>>

NoSnap == [user_id |-> NullStr, price |-> Null, created_at |-> Null]
NoInput == [is_parsed |-> FALSE, has_report |-> FALSE, rows |-> <<>>,
            period |-> NoPeriod, broker |-> NullStr, version |-> NullStr,
            note |-> NullStr]
NoInfo == [year |-> Null, price |-> Null]
NoBody == [token_ok |-> FALSE, event |-> NullStr, reason |-> NullStr,
           report_id |-> NullStr, promocode |-> NullStr, pay_idx |-> 0]

IdleReq ==
    [kind |-> "idle", pc |-> "idle",
     report_id |-> NullStr, user |-> NullStr, promo |-> NullStr,
     snap |-> NoSnap, used_promocode |-> NullStr, final_price |-> Null,
     promocode_usage |-> NullStr, pay_idx |-> 0,
     body |-> NoBody, payment_status |-> NullStr,
     input |-> NoInput, info |-> NoInfo, todo |-> {}, at |-> Null,
     year |-> Null, out |-> <<>>, listed |-> {}, parts |-> {},
     filename |-> 0, size |-> 0, total_size |-> 0, key |-> NullStr,
     created |-> NullStr,
     args |-> <<>>, ret |-> <<>>,
     result |-> 0, error_key |-> NullStr]

\* a new request takes the first slot that runs no handler and holds no task
\* a handler left behind
Idle(p) == req[p].pc \in {"idle", "done"} /\ req[p].todo = {}
Free(p) ==
    /\ Idle(p)
    /\ \A q \in Procs : q < p => ~Idle(q)
    /\ started < MaxRequests

\* a handler ends: its locals are dropped; the body it was sent, the response
\* and what it decided are kept in the slot until the slot is reused
Done(r, status, key) ==
    [IdleReq EXCEPT !.kind = r.kind, !.pc = "done",
                    !.result = status, !.error_key = key,
                    !.used_promocode = r.used_promocode,
                    !.promocode_usage = r.promocode_usage,
                    !.payment_status = r.payment_status,
                    !.pay_idx = r.pay_idx,
                    !.final_price = r.final_price,
                    !.out = r.out, !.listed = r.listed, !.parts = r.parts,
                    !.created = r.created, !.input = r.input]

\* a SELECT without the condition on is_deleted
ReportVisible_deleted_too(rid) == rid \in DOMAIN reports

\* DBService.get_report: soft-deleted rows are not returned
ReportVisible(rid) == rid \in DOMAIN reports /\ ~reports[rid].is_deleted

\* an UPDATE that stamps parsed_at instead of payment_status_updated_at
update_payment_status_stamps_parsed_at(tbl, rid, payment_status, t) ==
    IF rid \in DOMAIN tbl /\ ~tbl[rid].is_deleted
    THEN [tbl EXCEPT ![rid].payment_status = payment_status,
                     ![rid].parsed_at = t]
    ELSE tbl

\* DBService.update_payment_status
update_payment_status(tbl, rid, payment_status, t) ==
    IF rid \in DOMAIN tbl /\ ~tbl[rid].is_deleted
    THEN [tbl EXCEPT ![rid].payment_status = payment_status,
                     ![rid].payment_status_updated_at = t]
    ELSE tbl

\* an adjustment written from the value the code was provisioned with
update_promocode_rest_usages_stale(tbl, promo_code, increment) ==
    IF promo_code \in DOMAIN tbl
    THEN [tbl EXCEPT ![promo_code].rest_usages = rest0[promo_code] + increment]
    ELSE tbl

\* DBService.update_promocode_rest_usages: one UPDATE statement
update_promocode_rest_usages(tbl, promo_code, increment) ==
    IF promo_code \in DOMAIN tbl
    THEN [tbl EXCEPT ![promo_code].rest_usages = @ + increment]
    ELSE tbl

\* history of the adjustments issued for a code
Issued(a, promo_code, increment, idx) ==
    IF promo_code \in DOMAIN a
    THEN [a EXCEPT ![promo_code].decs = @ + (IF increment < 0 THEN 1 ELSE 0),
                   ![promo_code].incs = @ + (IF increment > 0 THEN 1 ELSE 0),
                   ![promo_code].by = @ \cup {idx}]
    ELSE a

\* ------------------------------------------- POST /reports/{id}/payment
\* the guards without the check of a payment in progress
PaymentGuard_no_in_progress(rid, user) ==
    IF ~ReportVisible(rid) THEN [status |-> 404, key |-> "not_found"]
    ELSE IF reports[rid].user_id # user
    THEN [status |-> 403, key |-> "forbidden"]
    ELSE IF reports[rid].parse_status # "parsed"
    THEN [status |-> 409, key |-> "report_not_parsed"]
    ELSE IF reports[rid].price = Null
    THEN [status |-> 409, key |-> "no_price"]
    ELSE IF reports[rid].payment_status = "payed"
    THEN [status |-> 409, key |-> "report_already_payed"]
    ELSE [status |-> 0, key |-> NullStr]

\* the guards of create_payment, in the order of the code
PaymentGuard(rid, user) ==
    IF ~ReportVisible(rid) THEN [status |-> 404, key |-> "not_found"]
    ELSE IF reports[rid].user_id # user
    THEN [status |-> 403, key |-> "forbidden"]
    ELSE IF reports[rid].parse_status # "parsed"
    THEN [status |-> 409, key |-> "report_not_parsed"]
    ELSE IF reports[rid].price = Null
    THEN [status |-> 409, key |-> "no_price"]
    ELSE IF reports[rid].payment_status = "payed"
    THEN [status |-> 409, key |-> "report_already_payed"]
    ELSE IF reports[rid].payment_status = "in_progress"
    THEN [status |-> 409, key |-> "report_payment_in_progress"]
    ELSE [status |-> 0, key |-> NullStr]

\* create_payment up to its second await: get_report and the guards; without
\* ?promo= the price is evaluated here (no promo lookup is awaited)
create_payment(p, rid, user, promo) ==
    /\ Free(p)
    /\ started' = started + 1
    /\ LET g == PaymentGuard(rid, user)
           r0 == [IdleReq EXCEPT !.kind = "pay",
                                 !.report_id = rid, !.user = user,
                                 !.promo = promo]
       IN  IF g.status # 0
           THEN req' = [req EXCEPT ![p] = Done(r0, g.status, g.key)]
           ELSE LET snap == [user_id |-> reports[rid].user_id,
                             price |-> reports[rid].price,
                             created_at |-> reports[rid].created_at]
                    price == get_price(snap.user_id, snap.price, FALSE,
                                       NoSnap, FALSE, now)
                IN  IF promo # NullStr
                    THEN req' = [req EXCEPT ![p] =
                                   [r0 EXCEPT !.pc = "get_promocode",
                                              !.promo = Upper(promo),
                                              !.snap = snap]]
                    ELSE req' = [req EXCEPT ![p] =
                                   [r0 EXCEPT !.pc = "gateway",
                                              !.snap = snap,
                                              !.promocode_usage = price.promocode_usage,
                                              !.final_price = price.final_price]]
    /\ UNCHANGED <<reports, rows, promocodes, now, gwRequests, payments,
                   adj, rest0, blobs, queue, lowest>>

\* _get_report_price: get_promocode, then PriceService.get_price
PayGetPromocode(p) ==
    /\ req[p].kind = "pay" /\ req[p].pc = "get_promocode"
    /\ LET r == req[p]
           found == r.promo \in DOMAIN promocodes
           promocode == IF found THEN promocodes[r.promo]
                        ELSE [promocode |-> NullStr, user_id |-> NullStr,
                              valid_from |-> 0, valid_to |-> 0,
                              rest_usages |-> 0, discount |-> 0]
           price == get_price(r.snap.user_id, r.snap.price, found,
                              promocode, ~found, now)
       IN  req' = [req EXCEPT ![p] =
                     [r EXCEPT !.pc = "gateway",
                               !.promocode_usage = price.promocode_usage,
                               !.final_price = price.final_price]]
    /\ UNCHANGED <<reports, rows, promocodes, now, gwRequests, payments,
                   adj, rest0, blobs, queue, lowest, started>>

\* metadata that names the code also when it has expired
MetadataPromocode_expired_too(promo, usage) ==
    IF usage \in {"success", "expired"} THEN promo ELSE NullStr

\* PaymentService._make_body: metadata["promocode"] is the promo code when
\* its usage is success, None otherwise
MetadataPromocode(promo, usage) ==
    IF usage = "success" THEN promo ELSE NullStr

\* a check of the HTTP status of the answer only
PaymentServiceError_status_only(answer) == answer = "bad_status"

\* PaymentService.create_payment raises PaymentServiceError on a status code
\* other than 200, a payment status other than pending, or an answer without
\* confirmation_url
PaymentServiceError(answer) ==
    answer \in {"bad_status", "not_pending", "no_confirmation_url"}

\* PaymentService.create_payment(user, report, price), the service the
\* endpoint and its tests are written for (reports_service/payment.py of this
\* tree is an earlier version: it takes a Promocode and fails with
\* AttributeError on the Price the endpoint passes). The request reaches the
\* gateway; any answer but 200 / pending / confirmation_url raises
\* PaymentServiceError.
\* On success the handler goes on to call update_payment_status, whose
\* utc_now() argument is evaluated before its statement is awaited
PayGateway(p, answer) ==
    /\ req[p].kind = "pay" /\ req[p].pc = "gateway"
    /\ gwRequests' = gwRequests + 1
    /\ LET r == [req[p] EXCEPT
                   !.used_promocode = MetadataPromocode(req[p].promo,
                                                        req[p].promocode_usage)]
       IN  IF ~PaymentServiceError(answer)
           THEN /\ payments' = Append(payments,
                      [report_id |-> r.report_id,
                       promocode |-> r.used_promocode,
                       amount |-> r.final_price,
                       before |-> IF r.used_promocode \in DOMAIN promocodes
                                  THEN promocodes[r.used_promocode].rest_usages
                                  ELSE Null,
                       created |-> FALSE, hooks |-> 0, resolved |-> NullStr])
                /\ req' = [req EXCEPT ![p] =
                              [r EXCEPT !.pc = "update_payment_status",
                                        !.pay_idx = Len(payments) + 1,
                                        !.at = now]]
           ELSE /\ payments' = payments
                /\ req' = [req EXCEPT ![p] = Done(r, 500, "internal")]
    /\ UNCHANGED <<reports, rows, promocodes, now, adj, rest0, blobs, queue,
                   lowest, started>>

\* db_service.update_payment_status(report_id, in_progress): the UPDATE,
\* with the time read when the call was made
PayUpdateStatus(p) ==
    /\ req[p].kind = "pay" /\ req[p].pc = "update_payment_status"
    /\ reports' = update_payment_status(reports, req[p].report_id,
                                        "in_progress", req[p].at)
    /\ IF req[p].used_promocode # NullStr
       THEN /\ req' = [req EXCEPT ![p].pc = "update_promocode"]
            /\ payments' = payments
       ELSE /\ req' = [req EXCEPT ![p] = Done(@, 201, NullStr)]
            /\ payments' = [payments EXCEPT ![req[p].pay_idx].created = TRUE]
    /\ UNCHANGED <<rows, promocodes, now, gwRequests, adj, rest0, blobs, queue,
                   lowest, started>>

\* db_service.update_promocode_rest_usages(promocode, -1)
PayUpdatePromocode(p) ==
    /\ req[p].kind = "pay" /\ req[p].pc = "update_promocode"
    /\ promocodes' = update_promocode_rest_usages(promocodes,
                                                  req[p].used_promocode, -1)
    /\ adj' = Issued(adj, req[p].used_promocode, -1, req[p].pay_idx)
    /\ payments' = [payments EXCEPT ![req[p].pay_idx].created = TRUE]
    /\ req' = [req EXCEPT ![p] = Done(@, 201, NullStr)]
    /\ UNCHANGED <<reports, rows, now, gwRequests, rest0, blobs, queue, lowest,
                   started>>

\* --------------------------------------------------- POST /yookassa/webhook
CANCELED == "payment.canceled"
SUCCEEDED == "payment.succeeded"

\* event and cancellation_details.reason of a notification
EventReasons ==
    {<<e, NullStr>> : e \in YookassaEvent \ {CANCELED}}
        \cup {<<CANCELED, rs>> : rs \in Reasons}

\* event and reason of the notifications whose event is expected
ExpectedEventReasons == {er \in EventReasons : er[1] \in {SUCCEEDED, CANCELED}}

\* notifications of the gateway for a payment it created (it echoes the
\* metadata of the creation request; delivery is at least once), and bodies
\* of any sender: for r1 without and with a promo code, for a soft-deleted
\* and for an unknown report, and one whose token does not verify
WebhookBodies ==
    {[token_ok |-> TRUE, event |-> er[1], reason |-> er[2],
      report_id |-> payments[i].report_id,
      promocode |-> payments[i].promocode, pay_idx |-> i] :
        i \in 1..Len(payments), er \in ExpectedEventReasons}
    \cup
    {[token_ok |-> TRUE, event |-> er[1], reason |-> er[2],
      report_id |-> "r1", promocode |-> NullStr, pay_idx |-> 0] :
        er \in EventReasons \ {<<"refund.succeeded", NullStr>>}}
    \cup
    {[token_ok |-> TRUE, event |-> er[1], reason |-> er[2],
      report_id |-> "r1", promocode |-> "PROMO123", pay_idx |-> 0] :
        er \in {<<CANCELED, "card_expired">>, <<"refund.succeeded", NullStr>>}}
    \cup
    {[token_ok |-> TRUE, event |-> SUCCEEDED, reason |-> NullStr,
      report_id |-> "r2", promocode |-> "PROMO123", pay_idx |-> 0],
     [token_ok |-> TRUE, event |-> CANCELED, reason |-> "card_expired",
      report_id |-> UnknownReportId, promocode |-> "PROMO123", pay_idx |-> 0],
     [token_ok |-> FALSE, event |-> CANCELED, reason |-> "card_expired",
      report_id |-> "r1", promocode |-> "PROMO123", pay_idx |-> 0]}

\* a choice that takes every cancellation for a failure
ChosenPaymentStatus_cancel_is_error(event, reason) ==
    IF event = SUCCEEDED THEN "payed"
    ELSE IF event = CANCELED THEN "error"
    ELSE NullStr

\* the payment status chosen for an event; NullStr: ValueError
ChosenPaymentStatus(event, reason) ==
    IF event = SUCCEEDED THEN "payed"
    ELSE IF event = CANCELED
    THEN IF reason \in USER_PAYMENT_CANCELLATION_REASONS
         THEN "not_payed" ELSE "error"
    ELSE NullStr

\* a webhook that does not look the report up
WebhookError_no_lookup(body) ==
    IF ~body.token_ok THEN "invalid_token"
    ELSE IF ChosenPaymentStatus(body.event, body.reason) = NullStr
    THEN "unexpected_event"
    ELSE NullStr

\* the exception that ends the webhook before any write: the token does not
\* verify, the event is not expected, the report is not found
WebhookError(body) ==
    IF ~body.token_ok THEN "invalid_token"
    ELSE IF ChosenPaymentStatus(body.event, body.reason) = NullStr
    THEN "unexpected_event"
    ELSE IF ~ReportVisible(body.report_id) THEN "report_not_exists"
    ELSE NullStr

\* a compensation that ignores the chosen status
NeedsCompensation_any_status(promocode, payment_status) ==
    promocode # NullStr

\* the promo code of the metadata gets its usage back on error only
NeedsCompensation(promocode, payment_status) ==
    promocode # NullStr /\ payment_status = "error"

\* accept_yookassa_webhook up to its second await: token verification, the
\* choice of the payment status, get_report and the call of
\* update_payment_status, which evaluates utc_now()
accept_yookassa_webhook(p, body) ==
    /\ Free(p)
    /\ started' = started + 1
    /\ LET r0 == [IdleReq EXCEPT !.kind = "hook",
                                 !.body = body,
                                 !.report_id = body.report_id,
                                 !.pay_idx = body.pay_idx]
           payment_status == ChosenPaymentStatus(body.event, body.reason)
           error == WebhookError(body)
       IN  IF error # NullStr
           THEN req' = [req EXCEPT ![p] = Done(r0, 500, error)]
           ELSE req' = [req EXCEPT ![p] =
                          [r0 EXCEPT !.pc = "update_payment_status",
                                     !.payment_status = payment_status,
                                     !.at = now]]
    /\ UNCHANGED <<reports, rows, promocodes, now, gwRequests, payments,
                   adj, rest0, blobs, queue, lowest>>

\* history: a notification of payment idx has been handled to the end
Resolved(ps, idx, payment_status) ==
    IF idx \in 1..Len(ps)
    THEN [ps EXCEPT ![idx].hooks = @ + 1, ![idx].resolved = payment_status]
    ELSE ps

\* db_service.update_payment_status(report_id, payment_status): the UPDATE,
\* with the time read when the call was made
HookUpdateStatus(p) ==
    /\ req[p].kind = "hook" /\ req[p].pc = "update_payment_status"
    /\ reports' = update_payment_status(reports, req[p].report_id,
                                        req[p].payment_status, req[p].at)
    /\ IF NeedsCompensation(req[p].body.promocode, req[p].payment_status)
       THEN /\ req' = [req EXCEPT ![p].pc = "update_promocode"]
            /\ payments' = payments
       ELSE /\ req' = [req EXCEPT ![p] = Done(@, 200, NullStr)]
            /\ payments' = Resolved(payments, req[p].pay_idx,
                                    req[p].payment_status)
    /\ UNCHANGED <<rows, promocodes, now, gwRequests, adj, rest0, blobs, queue,
                   lowest, started>>

\* db_service.update_promocode_rest_usages(promocode, +1)
HookUpdatePromocode(p) ==
    /\ req[p].kind = "hook" /\ req[p].pc = "update_promocode"
    /\ promocodes' = update_promocode_rest_usages(promocodes,
                                                  req[p].body.promocode, 1)
    /\ adj' = Issued(adj, req[p].body.promocode, 1, req[p].pay_idx)
    /\ payments' = Resolved(payments, req[p].pay_idx, req[p].payment_status)
    /\ req' = [req EXCEPT ![p] = Done(@, 200, NullStr)]
    /\ UNCHANGED <<reports, rows, now, gwRequests, rest0, blobs, queue, lowest,
                   started>>

\* ------------------------------------------------------------------ clock
Tick ==
    /\ now < MaxNow
    /\ now' = now + 1
    /\ UNCHANGED <<reports, rows, promocodes, req, gwRequests, payments,
                   adj, rest0, blobs, queue, lowest, started>>

\* ----------------------------------------------------------- table rows
ReportRow(user, created_at, parse_status, payment_status, price, is_deleted) ==
    [user_id |-> user, created_at |-> created_at,
     parse_status |-> parse_status, payment_status |-> payment_status,
     price |-> price, parsed_at |-> Null,
     broker |-> IF parse_status = "parsed" THEN "bbb" ELSE NullStr,
     period |-> IF parse_status = "parsed" THEN <<2020, 2020>> ELSE NoPeriod,
     year |-> IF parse_status = "parsed" THEN 2020 ELSE Null,
     parse_note |-> NullStr,
     parser_version |-> IF parse_status = "parsed" THEN "vvv" ELSE NullStr,
     payment_status_updated_at |-> Null,
     is_deleted |-> is_deleted,
     deleted_at |-> IF is_deleted THEN 0 ELSE Null]

PromocodeRow(code, user, valid_from, valid_to, rest_usages, discount) ==
    [promocode |-> code, user_id |-> user, valid_from |-> valid_from,
     valid_to |-> valid_to, rest_usages |-> rest_usages,
     discount |-> discount]

NoRows == [rid \in ReportIds |-> {}]

\* ------------------------------------------- payments and webhooks (SpecPay)
\* r1 belongs to u1 and is in any of the parse / payment states a report
\* row can hold (price is NULL unless the report is parsed; a parsed row
\* may carry no price); r2 is a soft-deleted report of u1.  PROMO123 is
\* common or personal to u2, valid at instant 1 only; SALE5 is a second code.
InitReportStates ==
    {<<"in_progress", Null, "not_payed">>, <<"not_parsed", Null, "not_payed">>,
     <<"parsed", Null, "not_payed">>}
        \cup {<<"parsed", 9900, ps>> : ps \in PaymentStatus}

\* owner, the one instant of validity, rest_usages
InitPromocodes ==
    {<<NullStr, 0, n>> : n \in 0..2} \cup {<<"u2", 0, 1>>, <<NullStr, 1, 1>>}

InitPay ==
    /\ \E st \in InitReportStates :
          reports = [rid \in ReportIds |->
                        IF rid = "r1"
                        THEN ReportRow("u1", 4, st[1], st[3], st[2], FALSE)
                        ELSE ReportRow("u1", 4, "parsed", "not_payed",
                                       9900, TRUE)]
    /\ rows = NoRows
    /\ \E pc \in InitPromocodes :
          promocodes = [c \in {"PROMO123", "SALE5"} |->
                           IF c = "PROMO123"
                           THEN PromocodeRow(c, pc[1], pc[2], pc[2], pc[3], 15)
                           ELSE PromocodeRow(c, NullStr, 0, 0, 5, 5)]
    /\ now = 0
    /\ req = [p \in Procs |-> IdleReq]
    /\ gwRequests = 0
    /\ payments = <<>>
    /\ adj = [c \in DOMAIN promocodes |-> [decs |-> 0, incs |-> 0, by |-> {}]]
    /\ rest0 = [c \in DOMAIN promocodes |-> promocodes[c].rest_usages]
    /\ lowest = [rid \in ReportIds |-> reports[rid].price]
    /\ started = 0
    /\ blobs = {}
    /\ queue = <<>>

\* report_id, requester, ?promo=
PaymentInputs ==
    {<<"r1", "u1", promo>> : promo \in PromoStrings \cup {NullStr}}
        \cup {<<"r1", "u2", NullStr>>, <<"r2", "u1", NullStr>>,
              <<UnknownReportId, "u1", "promo123">>}

NextPay ==
    \/ \E p \in Procs, inp \in PaymentInputs :
          create_payment(p, inp[1], inp[2], inp[3])
    \/ \E p \in Procs : PayGetPromocode(p)
    \/ \E p \in Procs, answer \in GatewayAnswers : PayGateway(p, answer)
    \/ \E p \in Procs : PayUpdateStatus(p)
    \/ \E p \in Procs : PayUpdatePromocode(p)
    \/ \E p \in Procs, body \in WebhookBodies :
          accept_yookassa_webhook(p, body)
    \/ \E p \in Procs : HookUpdateStatus(p)
    \/ \E p \in Procs : HookUpdatePromocode(p)
    \/ Tick

SpecPay == InitPay /\ [][NextPay]_vars

\* ------------------------------------------------ PUT /reports/{id}/parsed
\* the rows of a parse result: n rows of one source file
MkRows(n, tag) ==
    [i \in 1..n |-> [isin |-> tag, income_year |-> 2020 + (i % 2)]]

ParsedResult(n, tag, period) ==
    [is_parsed |-> TRUE, has_report |-> TRUE, rows |-> MkRows(n, tag),
     period |-> period, broker |-> "bbb", version |-> tag, note |-> NullStr]

\* bodies of the parser: parsed reports, and the bodies that take the
\* not-parsed branch (is_parsed false, or no parsed_report)
ParsingResults ==
    {ParsedResult(n, "A", <<2020, 2020>>) : n \in RowCounts}
        \cup {ParsedResult(11, "B", <<2020, 2021>>)}
        \cup {NoInput, [NoInput EXCEPT !.is_parsed = TRUE],
              [ParsedResult(11, "A", <<2020, 2020>>) EXCEPT !.is_parsed = FALSE]}

\* a DELETE that removes nothing
delete_report_rows_keep(tbl, rid) == tbl

\* DBService.delete_report_rows: DELETE FROM report_rows WHERE report_id = rid
delete_report_rows(tbl, rid) ==
    IF rid \in DOMAIN tbl THEN [tbl EXCEPT ![rid] = {}] ELSE tbl

\* the tuples add_report_rows sends: enumerate(rows, 1)
RowValues(first, rs) ==
    {[row_n |-> first + i - 1, isin |-> rs[i].isin,
      income_year |-> rs[i].income_year] : i \in 1..Len(rs)}

\* True when an INSERT of the tuples violates the key (report_id, row_n)
KeyClash(present, values) ==
    \E r \in present, v \in values : r.row_n = v.row_n

\* rows numbered by a bare enumerate(rows)
add_report_rows_from_zero(tbl, rid, rs) ==
    IF KeyClash(tbl[rid], RowValues(0, rs))
    THEN [err |-> TRUE, rows |-> tbl]
    ELSE [err |-> FALSE,
          rows |-> [tbl EXCEPT ![rid] = @ \cup RowValues(0, rs)]]

\* DBService.add_report_rows: one executemany, all of its rows or none
add_report_rows(tbl, rid, rs) ==
    IF KeyClash(tbl[rid], RowValues(1, rs))
    THEN [err |-> TRUE, rows |-> tbl]
    ELSE [err |-> FALSE,
          rows |-> [tbl EXCEPT ![rid] = @ \cup RowValues(1, rs)]]

\* year of the report: the year of the period when it lies in one year
ParsedYear(period) == IF period[1] = period[2] THEN period[1] ELSE Null

\* an UPDATE that leaves the price alone when the result carries no info
update_parsed_report_keeps_price(tbl, rid, parse_status, has_info, input, info, t) ==
    IF rid \in DOMAIN tbl /\ ~tbl[rid].is_deleted
    THEN [tbl EXCEPT
            ![rid].parse_status = parse_status,
            ![rid].parsed_at = t,
            ![rid].broker = IF has_info THEN input.broker ELSE NullStr,
            ![rid].period = IF has_info THEN input.period ELSE NoPeriod,
            ![rid].year = IF has_info THEN info.year ELSE Null,
            ![rid].parse_note = IF has_info THEN input.note ELSE NullStr,
            ![rid].parser_version = IF has_info THEN input.version ELSE NullStr,
            ![rid].price = IF has_info THEN info.price ELSE @]
    ELSE tbl

\* an UPDATE without the price column: the price stays as it was
update_parsed_report_unpriced(tbl, rid, parse_status, has_info, input, info, t) ==
    IF rid \in DOMAIN tbl /\ ~tbl[rid].is_deleted
    THEN [tbl EXCEPT
            ![rid].parse_status = parse_status,
            ![rid].parsed_at = t,
            ![rid].broker = IF has_info THEN input.broker ELSE NullStr,
            ![rid].period = IF has_info THEN input.period ELSE NoPeriod,
            ![rid].year = IF has_info THEN info.year ELSE Null,
            ![rid].parse_note = IF has_info THEN input.note ELSE NullStr,
            ![rid].parser_version = IF has_info THEN input.version ELSE NullStr]
    ELSE tbl

\* DBService.update_parsed_report: one UPDATE of the non-deleted report
update_parsed_report(tbl, rid, parse_status, has_info, input, info, t) ==
    IF rid \in DOMAIN tbl /\ ~tbl[rid].is_deleted
    THEN [tbl EXCEPT
            ![rid].parse_status = parse_status,
            ![rid].parsed_at = t,
            ![rid].broker = IF has_info THEN input.broker ELSE NullStr,
            ![rid].period = IF has_info THEN input.period ELSE NoPeriod,
            ![rid].year = IF has_info THEN info.year ELSE Null,
            ![rid].parse_note = IF has_info THEN input.note ELSE NullStr,
            ![rid].parser_version = IF has_info THEN input.version ELSE NullStr,
            ![rid].price = IF has_info THEN info.price ELSE Null]
    ELSE tbl

\* history: the lowest non-null price a report has carried
Lowest(low, tbl) ==
    [rid \in ReportIds |->
        IF tbl[rid].price = Null THEN low[rid]
        ELSE IF low[rid] = Null \/ tbl[rid].price < low[rid]
        THEN tbl[rid].price ELSE low[rid]]

\* roles of the users the auth service knows; the role of the parser is
\* the one get_service_user asks for
UserRole == {"user", "admin"}
SERVICE == "service"

\* a check that lets administrators through as well
get_service_user_or_admin(role) == role \in {SERVICE, "admin"}

\* get_service_user: TRUE when the requester is let through
get_service_user(role) == role = SERVICE

\* upload_parsing_result up to its second await: the dependency
\* get_service_user, then get_report
upload_parsing_result(p, role, rid, parsing_result) ==
    /\ Free(p)
    /\ started' = started + 1
    /\ LET r0 == [IdleReq EXCEPT !.kind = "parse", !.report_id = rid]
       IN  IF ~get_service_user(role)
           THEN req' = [req EXCEPT ![p] = Done(r0, 403, "forbidden")]
           ELSE IF ~ReportVisible(rid)
           THEN req' = [req EXCEPT ![p] = Done(r0, 404, "not_found")]
           ELSE req' = [req EXCEPT ![p] =
                          [r0 EXCEPT !.pc = "delete_report_rows",
                                     !.input = parsing_result,
                                     !.snap = [user_id |-> reports[rid].user_id,
                                               price |-> reports[rid].price,
                                               created_at |-> reports[rid].created_at]]]
    /\ UNCHANGED <<reports, rows, promocodes, now, gwRequests, payments,
                   adj, rest0, blobs, queue, lowest>>

\* db_service.delete_report_rows, then the pricing of a parsed result: calc on
\* the rows and the creation time, clamped by the price read with the report;
\* update_parsed_report is called and evaluates utc_now() before its
\* statement is awaited
ParseDeleteRows(p) ==
    /\ req[p].kind = "parse" /\ req[p].pc = "delete_report_rows"
    /\ rows' = delete_report_rows(rows, req[p].report_id)
    /\ LET r == req[p]
           computed == calc(Len(r.input.rows), r.snap.created_at)
       IN  IF r.input.is_parsed /\ r.input.has_report
           THEN IF computed.err
                THEN req' = [req EXCEPT ![p] = Done(r, 500, "internal")]
                ELSE req' = [req EXCEPT ![p] =
                               [r EXCEPT !.pc = "gather",
                                         !.at = now,
                                         !.todo = {"update_parsed_report",
                                                   "add_report_rows"},
                                         !.info = [year |-> ParsedYear(r.input.period),
                                                   price |-> ClampPrice(r.snap.price,
                                                                        computed.price)]]]
           ELSE req' = [req EXCEPT ![p].pc = "update_not_parsed",
                                   ![p].at = now]
    /\ UNCHANGED <<reports, promocodes, now, gwRequests, payments,
                   adj, rest0, blobs, queue, lowest, started>>

\* one task of asyncio.gather has run to its end. gather is called without
\* return_exceptions: the first exception is raised in the handler at once
\* and the request is answered 500, while the other task goes on alone; the
\* slot keeps what that task needs until it has run
Gathered(r, task, failed) ==
    IF r.pc = "done" THEN Done(r, r.result, r.error_key)
    ELSE IF failed
    THEN IF r.todo = {task} THEN Done(r, 500, "internal")
         ELSE [Done(r, 500, "internal") EXCEPT !.todo = r.todo \ {task},
                                               !.report_id = r.report_id,
                                               !.info = r.info, !.at = r.at]
    ELSE IF r.todo = {task} THEN Done(r, 200, NullStr)
    ELSE [r EXCEPT !.todo = @ \ {task}]

\* gather, first task: db_service.update_parsed_report(parsed, info), also
\* when add_report_rows has failed and the request is answered already
ParseUpdateParsed(p) ==
    /\ req[p].kind = "parse" /\ req[p].pc \in {"gather", "done"}
    /\ "update_parsed_report" \in req[p].todo
    /\ reports' = update_parsed_report(reports, req[p].report_id, "parsed",
                                       TRUE, req[p].input, req[p].info,
                                       req[p].at)
    /\ lowest' = Lowest(lowest, reports')
    /\ req' = [req EXCEPT ![p] = Gathered(@, "update_parsed_report", FALSE)]
    /\ UNCHANGED <<rows, promocodes, now, gwRequests, payments,
                   adj, rest0, blobs, queue, started>>

\* gather, second task: db_service.add_report_rows, row_n = 1..N in the order
\* of the result; a row_n already present violates the primary key and the
\* statement inserts nothing
ParseAddRows(p) ==
    /\ req[p].kind = "parse" /\ req[p].pc = "gather"
    /\ "add_report_rows" \in req[p].todo
    /\ LET added == add_report_rows(rows, req[p].report_id, req[p].input.rows)
       IN  /\ rows' = added.rows
           /\ req' = [req EXCEPT ![p] = Gathered(@, "add_report_rows", added.err)]
    /\ UNCHANGED <<reports, promocodes, now, gwRequests, payments,
                   adj, rest0, blobs, queue, lowest, started>>

\* db_service.update_parsed_report(not_parsed, None)
ParseUpdateNotParsed(p) ==
    /\ req[p].kind = "parse" /\ req[p].pc = "update_not_parsed"
    /\ reports' = update_parsed_report(reports, req[p].report_id,
                                       "not_parsed", FALSE, NoInput, NoInfo,
                                       req[p].at)
    /\ lowest' = Lowest(lowest, reports')
    /\ req' = [req EXCEPT ![p] = Done(@, 200, NullStr)]
    /\ UNCHANGED <<rows, promocodes, now, gwRequests, payments,
                   adj, rest0, blobs, queue, started>>

\* ------------------------- GET /reports/{id}/rows and .../rows/detailed
\* guards that look at the parse status before the owner
RowsGuard_parse_first(rid, user) ==
    IF ~ReportVisible(rid) THEN [status |-> 404, key |-> "not_found"]
    ELSE IF reports[rid].parse_status # "parsed"
    THEN [status |-> 409, key |-> "report_not_parsed"]
    ELSE IF reports[rid].user_id # user
    THEN [status |-> 403, key |-> "forbidden"]
    ELSE [status |-> 200, key |-> NullStr]

\* the guards both views share
RowsGuard(rid, user) ==
    IF ~ReportVisible(rid) THEN [status |-> 404, key |-> "not_found"]
    ELSE IF reports[rid].user_id # user
    THEN [status |-> 403, key |-> "forbidden"]
    ELSE IF reports[rid].parse_status # "parsed"
    THEN [status |-> 409, key |-> "report_not_parsed"]
    ELSE [status |-> 200, key |-> NullStr]

\* a payment check that lets any report through
DetailedGuard_no_payment_check(rid, user) == RowsGuard(rid, user)

\* the guards of the detailed view: those of the simple view, then the
\* payment check; report.price > 0 raises TypeError on a price of None
DetailedGuard(rid, user) ==
    IF RowsGuard(rid, user).status # 200 THEN RowsGuard(rid, user)
    ELSE IF reports[rid].payment_status = "payed"
    THEN [status |-> 200, key |-> NullStr]
    ELSE IF reports[rid].price = Null
    THEN [status |-> 500, key |-> "internal"]
    ELSE IF reports[rid].price > 0
    THEN [status |-> 402, key |-> "report_not_payed"]
    ELSE [status |-> 200, key |-> NullStr]

\* BaseReportInfo.define_is_parsed without the free-report clause
is_ready_to_use_payed_only(report) ==
    report.parse_status = "parsed" /\ report.payment_status = "payed"

\* BaseReportInfo.define_is_parsed, the validator of is_ready_to_use; a price
\* of None is not equal to 0
is_ready_to_use(report) ==
    /\ report.parse_status = "parsed"
    /\ (report.payment_status = "payed" \/ report.price = 0)

\* ORDER BY row_n: a set of rows as a list in ascending order of row_n
OrderByRowN(S) ==
    [i \in 1..Cardinality(S) |->
        CHOOSE r \in S : Cardinality({q \in S : q.row_n < r.row_n}) = i - 1]

\* a SELECT without the condition on the income year
SelectRows_any_year(rid, year) ==
    IF ~ReportVisible(rid) THEN <<>>
    ELSE OrderByRowN(rows[rid])

\* the SELECT of DBService.get_report_rows and get_report_detailed_rows:
\* rows of a non-deleted report, of the income year asked for if any
SelectRows(rid, year) ==
    IF ~ReportVisible(rid) THEN <<>>
    ELSE OrderByRowN({r \in rows[rid] : year = Null \/ r.income_year = year})

\* get_report_rows up to its second await
get_report_rows(p, rid, user, year) ==
    /\ Free(p)
    /\ started' = started + 1
    /\ LET r0 == [IdleReq EXCEPT !.kind = "rows", !.report_id = rid,
                                 !.user = user, !.year = year]
           g == RowsGuard(rid, user)
       IN  IF g.status # 200
           THEN req' = [req EXCEPT ![p] = Done(r0, g.status, g.key)]
           ELSE req' = [req EXCEPT ![p] = [r0 EXCEPT !.pc = "get_report_rows"]]
    /\ UNCHANGED <<reports, rows, promocodes, now, gwRequests, payments,
                   adj, rest0, blobs, queue, lowest>>

\* get_report_detailed_rows up to its second await
get_report_detailed_rows(p, rid, user, year) ==
    /\ Free(p)
    /\ started' = started + 1
    /\ LET r0 == [IdleReq EXCEPT !.kind = "detailed", !.report_id = rid,
                                 !.user = user, !.year = year]
           g == DetailedGuard(rid, user)
       IN  IF g.status # 200
           THEN req' = [req EXCEPT ![p] = Done(r0, g.status, g.key)]
           ELSE req' = [req EXCEPT ![p] = [r0 EXCEPT !.pc = "get_report_rows"]]
    /\ UNCHANGED <<reports, rows, promocodes, now, gwRequests, payments,
                   adj, rest0, blobs, queue, lowest>>

\* db_service.get_report_rows / get_report_detailed_rows and the response
RowsSelect(p) ==
    /\ req[p].kind \in {"rows", "detailed"} /\ req[p].pc = "get_report_rows"
    /\ req' = [req EXCEPT ![p] =
                  Done([@ EXCEPT !.out = SelectRows(req[p].report_id,
                                                    req[p].year)],
                       200, NullStr)]
    /\ UNCHANGED <<reports, rows, promocodes, now, gwRequests, payments,
                   adj, rest0, blobs, queue, lowest, started>>

\* ----------------------------------- GET /reports/{id} and GET /reports
\* DBService._get_report_parts: the rows of a report counted by income year,
\* whatever is_deleted says
_get_report_parts(tbl, rid) ==
    IF rid \notin DOMAIN tbl THEN {}
    ELSE {[report_id |-> rid, year |-> y,
           n_rows |-> Cardinality({r \in tbl[rid] : r.income_year = y})] :
              y \in {r.income_year : r \in tbl[rid]}}

\* get_report up to the answer of the first statement of
\* db_service.get_detailed_report, which gathers get_report and
\* _get_report_parts: the report has been read (snap; none: no user_id), the
\* parts are still awaited
get_report(p, rid, user) ==
    /\ Free(p)
    /\ started' = started + 1
    /\ req' = [req EXCEPT ![p] =
                  [IdleReq EXCEPT
                     !.kind = "get", !.pc = "get_report_parts",
                     !.report_id = rid, !.user = user,
                     !.snap = IF ReportVisible(rid)
                              THEN [user_id |-> reports[rid].user_id,
                                    price |-> reports[rid].price,
                                    created_at |-> reports[rid].created_at]
                              ELSE NoSnap]]
    /\ UNCHANGED <<reports, rows, promocodes, now, gwRequests, payments,
                   adj, rest0, blobs, queue, lowest>>

\* the parts are read, gather returns; then the checks of get_report: 404
\* without a report, 403 for a report of another user
GetReportParts(p) ==
    /\ req[p].kind = "get" /\ req[p].pc = "get_report_parts"
    /\ LET r == [req[p] EXCEPT !.parts = _get_report_parts(rows,
                                                           req[p].report_id)]
       IN  req' = [req EXCEPT ![p] =
                     IF r.snap = NoSnap
                     THEN Done([r EXCEPT !.parts = {}], 404, "not_found")
                     ELSE IF r.snap.user_id # r.user
                     THEN Done([r EXCEPT !.parts = {}], 403, "forbidden")
                     ELSE Done(r, 200, NullStr)]
    /\ UNCHANGED <<reports, rows, promocodes, now, gwRequests, payments,
                   adj, rest0, blobs, queue, lowest, started>>

\* a SELECT that forgets the user
db_get_reports_of_anyone(tbl, user) ==
    {rid \in DOMAIN tbl : ~tbl[rid].is_deleted}

\* DBService.get_reports: the non-deleted reports of one user
db_get_reports(tbl, user) ==
    {rid \in DOMAIN tbl : tbl[rid].user_id = user /\ ~tbl[rid].is_deleted}

\* get_reports up to the answer of db_service.get_reports inside
\* get_detailed_reports; the parts of every report listed are then gathered
\* (todo), and a gather of nothing returns at once
get_reports(p, user) ==
    /\ Free(p)
    /\ started' = started + 1
    /\ LET r == [IdleReq EXCEPT !.kind = "list", !.user = user,
                                !.listed = db_get_reports(reports, user)]
       IN  req' = [req EXCEPT ![p] =
                     IF r.listed = {} THEN Done(r, 200, NullStr)
                     ELSE [r EXCEPT !.pc = "get_report_parts",
                                    !.todo = r.listed]]
    /\ UNCHANGED <<reports, rows, promocodes, now, gwRequests, payments,
                   adj, rest0, blobs, queue, lowest>>

\* one _get_report_parts of the gather is answered; after the last one the
\* list is returned
ListReportParts(p, rid) ==
    /\ req[p].kind = "list" /\ req[p].pc = "get_report_parts"
    /\ rid \in req[p].todo
    /\ LET r == [req[p] EXCEPT !.parts = @ \cup _get_report_parts(rows, rid),
                               !.todo = @ \ {rid}]
       IN  req' = [req EXCEPT ![p] =
                     IF r.todo = {} THEN Done([r EXCEPT !.todo = {}], 200, NullStr)
                     ELSE r]
    /\ UNCHANGED <<reports, rows, promocodes, now, gwRequests, payments,
                   adj, rest0, blobs, queue, lowest, started>>

\* --------------------------------------------- GET /reports/{id}/price
\* get_report_price up to the await of get_promocode; without ?promo= the
\* price is computed at once
get_report_price(p, rid, user, promo) ==
    /\ Free(p)
    /\ started' = started + 1
    /\ LET r0 == [IdleReq EXCEPT !.kind = "price", !.report_id = rid,
                                 !.user = user]
       IN  IF ~ReportVisible(rid)
           THEN req' = [req EXCEPT ![p] = Done(r0, 404, "not_found")]
           ELSE IF reports[rid].user_id # user
           THEN req' = [req EXCEPT ![p] = Done(r0, 403, "forbidden")]
           ELSE IF reports[rid].price = Null
           THEN req' = [req EXCEPT ![p] = Done(r0, 409, "no_price")]
           ELSE IF promo = NullStr
           THEN LET price == get_price(reports[rid].user_id, reports[rid].price,
                                       FALSE, NoSnap, FALSE, now)
                IN  req' = [req EXCEPT ![p] =
                              Done([r0 EXCEPT
                                      !.final_price = price.final_price,
                                      !.promocode_usage = price.promocode_usage],
                                   200, NullStr)]
           ELSE req' = [req EXCEPT ![p] =
                          [r0 EXCEPT !.pc = "get_promocode",
                                     !.promo = Upper(promo),
                                     !.snap = [user_id |-> reports[rid].user_id,
                                               price |-> reports[rid].price,
                                               created_at |-> reports[rid].created_at]]]
    /\ UNCHANGED <<reports, rows, promocodes, now, gwRequests, payments,
                   adj, rest0, blobs, queue, lowest>>

\* db_service.get_promocode, price_service.get_price and the response
PriceGetPromocode(p) ==
    /\ req[p].kind = "price" /\ req[p].pc = "get_promocode"
    /\ LET r == req[p]
           found == r.promo \in DOMAIN promocodes
           promocode == IF found THEN promocodes[r.promo]
                        ELSE [promocode |-> NullStr, user_id |-> NullStr,
                              valid_from |-> 0, valid_to |-> 0,
                              rest_usages |-> 0, discount |-> 0]
           price == get_price(r.snap.user_id, r.snap.price, found,
                              promocode, ~found, now)
       IN  req' = [req EXCEPT ![p] =
                     Done([r EXCEPT !.final_price = price.final_price,
                                    !.promocode_usage = price.promocode_usage],
                          200, NullStr)]
    /\ UNCHANGED <<reports, rows, promocodes, now, gwRequests, payments,
                   adj, rest0, blobs, queue, lowest, started>>

\* ------------------------------------------------- DELETE /reports/{id}
\* an UPDATE that marks every report of the table
set_report_deleted_all(tbl, rid, t) ==
    [r \in DOMAIN tbl |->
        IF ~tbl[r].is_deleted
        THEN [tbl[r] EXCEPT !.is_deleted = TRUE, !.deleted_at = t]
        ELSE tbl[r]]

\* DBService.set_report_deleted: one UPDATE of the non-deleted report
set_report_deleted(tbl, rid, t) ==
    IF rid \in DOMAIN tbl /\ ~tbl[rid].is_deleted
    THEN [tbl EXCEPT ![rid].is_deleted = TRUE, ![rid].deleted_at = t]
    ELSE tbl

\* delete_report up to its second await: get_report and the owner check
delete_report(p, rid, user) ==
    /\ Free(p)
    /\ started' = started + 1
    /\ LET r0 == [IdleReq EXCEPT !.kind = "delete", !.report_id = rid,
                                 !.user = user]
       IN  req' = [req EXCEPT ![p] =
                     IF ~ReportVisible(rid) THEN Done(r0, 404, "not_found")
                     ELSE IF reports[rid].user_id # user
                     THEN Done(r0, 403, "forbidden")
                     ELSE [r0 EXCEPT !.pc = "delete_report_rows"]]
    /\ UNCHANGED <<reports, rows, promocodes, now, gwRequests, payments,
                   adj, rest0, blobs, queue, lowest>>

\* db_service.delete_report_rows, then the call of set_report_deleted, which
\* evaluates utc_now() before its statement is awaited
DeleteRows(p) ==
    /\ req[p].kind = "delete" /\ req[p].pc = "delete_report_rows"
    /\ rows' = delete_report_rows(rows, req[p].report_id)
    /\ req' = [req EXCEPT ![p].pc = "set_report_deleted", ![p].at = now]
    /\ UNCHANGED <<reports, promocodes, now, gwRequests, payments,
                   adj, rest0, blobs, queue, lowest, started>>

\* db_service.set_report_deleted and the response 204
DeleteSetDeleted(p) ==
    /\ req[p].kind = "delete" /\ req[p].pc = "set_report_deleted"
    /\ reports' = set_report_deleted(reports, req[p].report_id, req[p].at)
    /\ req' = [req EXCEPT ![p] =
                  [Done(@, 204, NullStr) EXCEPT !.report_id = req[p].report_id]]
    /\ UNCHANGED <<rows, promocodes, now, gwRequests, payments,
                   adj, rest0, blobs, queue, lowest, started>>

\* ----------------------------------------------------------- POST /reports
\* ServiceConfig: the limits of an upload. max_user_reports (100 by default)
\* and max_report_size (5,000,000 bytes by default) are configured small, so
\* that a few uploads reach the first and a file of a few chunks the second
max_user_reports == 2
max_report_size == 2500
max_report_filename_length == 128
chunk_size == 1000

\* report ids given out by uuid4(): an id no report has yet
uuid4(tbl) == "n" \o ToString(Cardinality(DOMAIN tbl) + 1)

\* a load that reads the file to its end whatever its size
safely_load_file_content_unchecked(rest, total_size, max_size, chunk) ==
    LET n == IF rest < chunk THEN rest ELSE chunk
    IN  [done |-> n = 0, err |-> FALSE, size |-> total_size + n]

\* safely_load_file_content, one pass of its loop on the answer of
\* file.read(chunk_size): rest is what is left to read, total_size what has
\* been read. An empty chunk ends the load; the load is given up as soon as
\* the bytes read exceed max_size; otherwise the next chunk is awaited
safely_load_file_content(rest, total_size, max_size, chunk) ==
    LET n == IF rest < chunk THEN rest ELSE chunk
    IN  IF n = 0 THEN [done |-> TRUE, err |-> FALSE, size |-> total_size]
        ELSE IF total_size + n > max_size
        THEN [done |-> TRUE, err |-> TRUE, size |-> Null]
        ELSE [done |-> FALSE, err |-> FALSE, size |-> total_size + n]

\* an INSERT that writes the payment status too, as payed
add_new_report_payed(tbl, rid, user, t) ==
    [r \in DOMAIN tbl \cup {rid} |->
        IF r = rid
        THEN ReportRow(user, t, "in_progress", "payed", Null, FALSE)
        ELSE tbl[r]]

\* DBService.add_new_report: the INSERT gives report_id, user_id, filename,
\* created_at and parse_status; every other column takes its default
add_new_report(tbl, rid, user, t) ==
    [r \in DOMAIN tbl \cup {rid} |->
        IF r = rid
        THEN ReportRow(user, t, "in_progress", "not_payed", Null, FALSE)
        ELSE tbl[r]]

\* StorageConfig.report_body_key_template
report_body_key(rid) == "report_bodies/" \o rid

\* StorageService.save_report: the object stored under a key is replaced
save_report(bucket, key, size) ==
    {b \in bucket : b.key # key} \cup {[key |-> key, size |-> size]}

\* QueueService.send_parse_message: one message with the report and its key
send_parse_message(q, rid, key) ==
    Append(q, [report_id |-> rid, storage_key |-> key])

\* upload_report up to its first await: the check of the filename length
upload_report(p, user, filename, size) ==
    /\ Free(p)
    /\ started' = started + 1
    /\ LET r == [IdleReq EXCEPT !.kind = "upload_report", !.user = user,
                                !.filename = filename, !.size = size]
       IN  req' = [req EXCEPT ![p] =
                     IF filename > max_report_filename_length
                     THEN Done(r, 422, "value_error.max_length")
                     ELSE [r EXCEPT !.pc = "get_reports"]]
    /\ UNCHANGED <<reports, rows, promocodes, now, gwRequests, payments,
                   adj, rest0, lowest, blobs, queue>>

\* db_service.get_reports and the check of their number; the first
\* file.read of the load is awaited next
UploadGetReports(p) ==
    /\ req[p].pc = "get_reports"
    /\ LET r == req[p]
           n == Cardinality(db_get_reports(reports, r.user))
       IN  req' = [req EXCEPT ![p] =
                     IF n >= max_user_reports
                     THEN Done(r, 409, "too_many_reports")
                     ELSE [r EXCEPT !.pc = "file_read", !.total_size = 0]]
    /\ UNCHANGED <<reports, rows, promocodes, now, gwRequests, payments,
                   adj, rest0, lowest, started, blobs, queue>>

\* one file.read of safely_load_file_content is answered. After the empty
\* chunk add_new_report is called, which evaluates utc_now() before its
\* statement is awaited
UploadFileRead(p) ==
    /\ req[p].kind = "upload_report" /\ req[p].pc = "file_read"
    /\ LET r == req[p]
           file == safely_load_file_content(r.size - r.total_size,
                                            r.total_size, max_report_size,
                                            chunk_size)
       IN  req' = [req EXCEPT ![p] =
                     IF file.err THEN Done(r, 413, "too_large")
                     ELSE IF file.done
                     THEN [r EXCEPT !.pc = "add_new_report",
                                    !.size = file.size, !.total_size = 0,
                                    !.at = now]
                     ELSE [r EXCEPT !.total_size = file.size]]
    /\ UNCHANGED <<reports, rows, promocodes, now, gwRequests, payments,
                   adj, rest0, lowest, started, blobs, queue>>

\* db_service.add_new_report(user.user_id, file.filename)
UploadAddNewReport(p) ==
    /\ req[p].pc = "add_new_report"
    /\ LET rid == uuid4(reports)
       IN  /\ reports' = add_new_report(reports, rid, req[p].user, req[p].at)
           /\ req' = [req EXCEPT ![p].pc = "save_report",
                                 ![p].created = rid]
    /\ UNCHANGED <<rows, promocodes, now, gwRequests, payments,
                   adj, rest0, lowest, started, blobs, queue>>

\* answers of the object storage and of the queue to a call: done, or an
\* exception of the client
CollaboratorAnswers == {"ok", "error"}

\* key = storage_service.save_report(report.report_id, file_content), with
\* the save_report that returns the key it wrote under, as upload_report
\* and its test use it (the StorageService of storage.py returns nothing);
\* an exception of the storage client ends the request with 500
UploadSaveReport(p, answer) ==
    /\ req[p].pc = "save_report"
    /\ LET key == report_body_key(req[p].created)
       IN  IF answer = "ok"
           THEN /\ blobs' = save_report(blobs, key, req[p].size)
                /\ req' = [req EXCEPT ![p].pc = "send_parse_message",
                                      ![p].key = key]
           ELSE /\ blobs' = blobs
                /\ req' = [req EXCEPT ![p] = Done(@, 500, "internal")]
    /\ UNCHANGED <<reports, rows, promocodes, now, gwRequests, payments,
                   adj, rest0, lowest, started, queue>>

\* queue_service.send_parse_message(report.report_id, key), then 201 with
\* the report, with the send_parse_message of two arguments that
\* upload_report and its test use (the QueueService of queue.py takes the
\* key only); an exception of the queue client ends the request with 500
UploadSendParseMessage(p, answer) ==
    /\ req[p].pc = "send_parse_message"
    /\ IF answer = "ok"
       THEN /\ queue' = send_parse_message(queue, req[p].created, req[p].key)
            /\ req' = [req EXCEPT ![p] = Done(req[p], 201, NullStr)]
       ELSE /\ queue' = queue
            /\ req' = [req EXCEPT ![p] = Done(req[p], 500, "internal")]
    /\ UNCHANGED <<reports, rows, promocodes, now, gwRequests, payments,
                   adj, rest0, lowest, started, blobs>>

\* -------------------------- every endpoint, requests overlapping (SpecAccess)
\* r1 is a report of u1: not parsed yet, or parsed with 11 rows and free
\* (created under the first strategy), priced 199.00, or without price; r2
\* is a parsed report of u2 with 11 rows, or a soft-deleted report of u2.
\* parse_status, created_at, price, payment_status of r1
InitAccessStates ==
    {<<"in_progress", 4, Null, "not_payed">>, <<"parsed", 4, Null, "not_payed">>}
        \cup {<<"parsed", 1, 0, ps>> : ps \in PaymentStatus \ {"payed"}}
        \cup {<<"parsed", 4, 19900, ps>> : ps \in PaymentStatus}

InitAccess ==
    /\ \E st \in InitAccessStates, is_deleted \in BOOLEAN :
          /\ reports = [rid \in ReportIds |->
                          IF rid = "r1"
                          THEN ReportRow("u1", st[2], st[1], st[4], st[3], FALSE)
                          ELSE ReportRow("u2", 4, "parsed", "not_payed",
                                         19900, is_deleted)]
          /\ rows = [rid \in ReportIds |->
                       IF rid = "r1"
                       THEN IF st[1] = "parsed"
                            THEN RowValues(1, MkRows(11, "A")) ELSE {}
                       ELSE IF is_deleted THEN {}
                            ELSE RowValues(1, MkRows(11, "C"))]
    /\ promocodes = [c \in {"PROMO123"} |->
                        PromocodeRow(c, NullStr, 0, MaxNow, 1, 15)]
    /\ now = 0
    /\ req = [p \in Procs |-> IdleReq]
    /\ gwRequests = 0
    /\ payments = <<>>
    /\ adj = [c \in DOMAIN promocodes |-> [decs |-> 0, incs |-> 0, by |-> {}]]
    /\ rest0 = [c \in DOMAIN promocodes |-> promocodes[c].rest_usages]
    /\ lowest = [rid \in ReportIds |-> reports[rid].price]
    /\ started = 0
    /\ blobs = {}
    /\ queue = <<>>

\* report_id and requester of the requests of the user role: the owner and
\* a foreign user for r1 and for r2, and an id no report carries
AccessInputs ==
    {<<"r1", "u1">>, <<"r1", "u2">>, <<"r2", "u2">>, <<"r2", "u1">>,
     <<UnknownReportId, "u1">>}

\* the rows views are also asked for one year
RowsInputs ==
    {<<inp[1], inp[2], Null>> : inp \in AccessInputs}
        \cup {<<"r1", "u1", 2021>>}

\* the price and the payment are also asked for with ?promo=
PromoInputs ==
    {<<inp[1], inp[2], NullStr>> : inp \in AccessInputs}
        \cup {<<"r1", "u1", "promo123">>}

\* role, report_id and body of the ingestions
AccessParseInputs ==
    {<<SERVICE, "r1", ParsedResult(11, "B", <<2020, 2021>>)>>,
     <<SERVICE, "r1", ParsedResult(0, "A", <<2020, 2020>>)>>,
     <<SERVICE, "r1", NoInput>>,
     <<SERVICE, "r2", ParsedResult(11, "C", <<2020, 2020>>)>>}
    \cup {<<role, "r1", ParsedResult(11, "A", <<2020, 2020>>)>> :
              role \in UserRole}

\* uploader, length of the filename and size of the file of the uploads
AccessUploads == {<<"u1", 128, 2500>>}

\* SpecAccess starts at most MaxAccessRequests requests
AccessOpen == started < MaxAccessRequests

NextAccess ==
    \/ \E p \in Procs, inp \in RowsInputs :
          AccessOpen /\ get_report_rows(p, inp[1], inp[2], inp[3])
    \/ \E p \in Procs, inp \in RowsInputs :
          AccessOpen /\ get_report_detailed_rows(p, inp[1], inp[2], inp[3])
    \/ \E p \in Procs : RowsSelect(p)
    \/ \E p \in Procs, inp \in AccessInputs :
          AccessOpen /\ get_report(p, inp[1], inp[2])
    \/ \E p \in Procs : GetReportParts(p)
    \/ \E p \in Procs, user \in Users :
          AccessOpen /\ get_reports(p, user)
    \/ \E p \in Procs, rid \in DOMAIN reports : ListReportParts(p, rid)
    \/ \E p \in Procs, inp \in PromoInputs :
          AccessOpen /\ get_report_price(p, inp[1], inp[2], inp[3])
    \/ \E p \in Procs : PriceGetPromocode(p)
    \/ \E p \in Procs, inp \in AccessInputs :
          AccessOpen /\ delete_report(p, inp[1], inp[2])
    \/ \E p \in Procs : DeleteRows(p)
    \/ \E p \in Procs : DeleteSetDeleted(p)
    \/ \E p \in Procs, inp \in PromoInputs :
          AccessOpen /\ create_payment(p, inp[1], inp[2], inp[3])
    \/ \E p \in Procs : PayGetPromocode(p)
    \/ \E p \in Procs, answer \in GatewayAnswers : PayGateway(p, answer)
    \/ \E p \in Procs : PayUpdateStatus(p)
    \/ \E p \in Procs : PayUpdatePromocode(p)
    \/ \E p \in Procs, inp \in AccessParseInputs :
          AccessOpen /\ upload_parsing_result(p, inp[1], inp[2], inp[3])
    \/ \E p \in Procs : ParseDeleteRows(p)
    \/ \E p \in Procs : ParseUpdateParsed(p)
    \/ \E p \in Procs : ParseAddRows(p)
    \/ \E p \in Procs : ParseUpdateNotParsed(p)
    \/ \E p \in Procs, body \in WebhookBodies :
          AccessOpen /\ accept_yookassa_webhook(p, body)
    \/ \E p \in Procs : HookUpdateStatus(p)
    \/ \E p \in Procs : HookUpdatePromocode(p)
    \/ \E p \in Procs, inp \in AccessUploads :
          AccessOpen /\ upload_report(p, inp[1], inp[2], inp[3])
    \/ \E p \in Procs : UploadGetReports(p)
    \/ \E p \in Procs : UploadFileRead(p)
    \/ \E p \in Procs : UploadAddNewReport(p)
    \/ \E p \in Procs, answer \in CollaboratorAnswers :
          UploadSaveReport(p, answer)
    \/ \E p \in Procs, answer \in CollaboratorAnswers :
          UploadSendParseMessage(p, answer)
    \/ Tick

SpecAccess == InitAccess /\ [][NextAccess]_vars

\* ------------------------------- ingestions one after the other (SpecIngest)
\* r1 is a freshly uploaded report of u1, created before the first pricing
\* strategy or under one of the strategies; r2 is a soft-deleted report
\* without rows, or a parsed report of u2 with the rows of its parse.
InitIngest ==
    /\ \E created_at \in {0, 1, 2, 4}, is_deleted \in BOOLEAN :
          /\ reports = [rid \in ReportIds |->
                          IF rid = "r1"
                          THEN ReportRow("u1", created_at, "in_progress",
                                         "not_payed", Null, FALSE)
                          ELSE IF is_deleted
                          THEN ReportRow("u1", 4, "in_progress", "not_payed",
                                         Null, TRUE)
                          ELSE ReportRow("u2", 4, "parsed", "not_payed",
                                         19900, FALSE)]
          /\ rows = [NoRows EXCEPT !["r2"] =
                       IF is_deleted THEN {}
                       ELSE RowValues(1, MkRows(11, "C"))]
    /\ promocodes = [c \in {"PROMO123"} |->
                        PromocodeRow(c, NullStr, 0, 0, 1, 15)]
    /\ now = 0
    /\ req = [p \in Procs |-> IdleReq]
    /\ gwRequests = 0
    /\ payments = <<>>
    /\ adj = [c \in DOMAIN promocodes |-> [decs |-> 0, incs |-> 0, by |-> {}]]
    /\ rest0 = [c \in DOMAIN promocodes |-> promocodes[c].rest_usages]
    /\ lowest = [rid \in ReportIds |-> reports[rid].price]
    /\ started = 0
    /\ blobs = {}
    /\ queue = <<>>

\* role of the requester, report_id, body: the parser sends every body for
\* every report, the other roles one body for r1
ParseInputs ==
    {<<SERVICE, rid, parsing_result>> :
        rid \in ReportIds \cup {UnknownReportId},
        parsing_result \in ParsingResults}
    \cup {<<role, "r1", ParsedResult(11, "A", <<2020, 2020>>)>> :
              role \in UserRole}

\* only the first slot takes requests: no two ingestions overlap
NextIngest ==
    \/ \E inp \in ParseInputs :
          upload_parsing_result(1, inp[1], inp[2], inp[3])
    \/ ParseDeleteRows(1)
    \/ ParseUpdateParsed(1)
    \/ ParseAddRows(1)
    \/ ParseUpdateNotParsed(1)
    \/ Tick

SpecIngest == InitIngest /\ [][NextIngest]_vars

\* ------------------------------------------- overlapping uploads (SpecUpload)
\* r1 and r2 are earlier uploads, each soft-deleted or not: r1 of u1, r2 of
\* u1 or of u2
InitUpload ==
    /\ \E d1 \in BOOLEAN, d2 \in BOOLEAN, owner \in Users :
          reports = [rid \in ReportIds |->
                        IF rid = "r1"
                        THEN ReportRow("u1", 0, "in_progress", "not_payed",
                                       Null, d1)
                        ELSE ReportRow(owner, 0, "in_progress", "not_payed",
                                       Null, d2)]
    /\ rows = NoRows
    /\ promocodes = [c \in {"PROMO123"} |->
                        PromocodeRow(c, NullStr, 0, 0, 1, 15)]
    /\ now = 0
    /\ req = [p \in Procs |-> IdleReq]
    /\ gwRequests = 0
    /\ payments = <<>>
    /\ adj = [c \in DOMAIN promocodes |-> [decs |-> 0, incs |-> 0, by |-> {}]]
    /\ rest0 = [c \in DOMAIN promocodes |-> promocodes[c].rest_usages]
    /\ lowest = [rid \in ReportIds |-> reports[rid].price]
    /\ started = 0
    /\ blobs = {}
    /\ queue = <<>>

\* uploader, length of the filename, size of the file in bytes: each limit
\* is met at its value and one above
UploadInputs ==
    {<<"u1", filename, size>> :
        filename \in {max_report_filename_length,
                      max_report_filename_length + 1},
        size \in {max_report_size, max_report_size + 1}}
        \cup {<<"u2", max_report_filename_length, size>> :
                 size \in {max_report_size, max_report_size + 1}}

NextUpload ==
    \/ \E p \in Procs, inp \in UploadInputs :
          upload_report(p, inp[1], inp[2], inp[3])
    \/ \E p \in Procs : UploadGetReports(p)
    \/ \E p \in Procs : UploadFileRead(p)
    \/ \E p \in Procs : UploadAddNewReport(p)
    \/ \E p \in Procs, answer \in CollaboratorAnswers :
          UploadSaveReport(p, answer)
    \/ \E p \in Procs, answer \in CollaboratorAnswers :
          UploadSendParseMessage(p, answer)
    \/ Tick

SpecUpload == InitUpload /\ [][NextUpload]_vars

\* ------------------------------------- the pricing engine alone (SpecPricing)
\* the promo code records a price is asked with: any owner, any number of
\* usages left around 0, valid at instant 1 only
PricePromocodes ==
    {PromocodeRow("PROMO123", user, 1, 1, rest_usages, 15) :
        user \in Users \cup {NullStr}, rest_usages \in {-1, 0, 1}}

\* _get_report_price: no promo given, a promo without a record, a promo with
\* its record
PricePromoCases ==
    {<<FALSE, FALSE, PromocodeRow(NullStr, NullStr, 0, 0, 0, 0)>>,
     <<FALSE, TRUE, PromocodeRow(NullStr, NullStr, 0, 0, 0, 0)>>}
        \cup {<<TRUE, FALSE, promocode>> : promocode \in PricePromocodes}

\* the thresholds and prices a calculator is configured with, well formed
\* or not
ThresholdLists ==
    {<<>>, <<10>>, <<10, 30>>, <<10, 10>>, <<30, 10>>, <<10, 30, 100>>,
     <<10, 100, 30>>}
PriceLists ==
    {<<>>, <<4900>>, <<4900, 14900>>, <<4900, 14900, 24900>>,
     <<4900, 14900, 24900, 34900>>}
RowNumbers == {0, 10, 11, 30, 31, 100, 101}

\* PriceService.get_price(report, promocode, promocode_not_exist) at instant t
ApplyGetPrice(report_user, report_price, case, t) ==
    /\ Free(1)
    /\ started' = started + 1
    /\ req' = [req EXCEPT ![1] =
                 [IdleReq EXCEPT
                     !.kind = "get_price", !.pc = "done",
                     !.args = <<report_user, report_price, case, t>>,
                     !.ret = get_price(report_user, report_price, case[1],
                                       case[3], case[2], t)]]
    /\ UNCHANGED <<reports, rows, promocodes, now, gwRequests, payments,
                   adj, rest0, lowest, blobs, queue>>

\* PriceService.calc(parsed_report, created_at)
ApplyCalc(n_rows, created_at) ==
    /\ Free(1)
    /\ started' = started + 1
    /\ req' = [req EXCEPT ![1] =
                 [IdleReq EXCEPT
                     !.kind = "calc", !.pc = "done",
                     !.args = <<n_rows, created_at>>,
                     !.ret = calc(n_rows, created_at)]]
    /\ UNCHANGED <<reports, rows, promocodes, now, gwRequests, payments,
                   adj, rest0, lowest, blobs, queue>>

\* thresholds_calculator(parsed_report, n_rows_thresholds, prices)
ApplyThresholds(n_rows, n_rows_thresholds, prices) ==
    /\ Free(1)
    /\ started' = started + 1
    /\ req' = [req EXCEPT ![1] =
                 [IdleReq EXCEPT
                     !.kind = "thresholds", !.pc = "done",
                     !.args = <<n_rows, n_rows_thresholds, prices>>,
                     !.ret = thresholds_calculator(n_rows, n_rows_thresholds,
                                                   prices)]]
    /\ UNCHANGED <<reports, rows, promocodes, now, gwRequests, payments,
                   adj, rest0, lowest, blobs, queue>>

InitPricing ==
    /\ reports = [rid \in ReportIds |->
                    ReportRow("u1", 0, "in_progress", "not_payed", Null,
                              FALSE)]
    /\ rows = NoRows
    /\ promocodes = [c \in {"PROMO123"} |->
                        PromocodeRow(c, NullStr, 0, 0, 1, 15)]
    /\ now = 0
    /\ req = [p \in Procs |-> IdleReq]
    /\ gwRequests = 0
    /\ payments = <<>>
    /\ adj = [c \in DOMAIN promocodes |-> [decs |-> 0, incs |-> 0, by |-> {}]]
    /\ rest0 = [c \in DOMAIN promocodes |-> promocodes[c].rest_usages]
    /\ lowest = [rid \in ReportIds |-> reports[rid].price]
    /\ started = 0
    /\ blobs = {}
    /\ queue = <<>>

NextPricing ==
    \/ \E report_user \in Users, report_price \in {0, 9900, 15632},
          case \in PricePromoCases, t \in 0..2 :
          ApplyGetPrice(report_user, report_price, case, t)
    \/ \E n_rows \in RowNumbers, created_at \in 0..5 :
          ApplyCalc(n_rows, created_at)
    \/ \E n_rows \in RowNumbers, n_rows_thresholds \in ThresholdLists,
          prices \in PriceLists :
          ApplyThresholds(n_rows, n_rows_thresholds, prices)

SpecPricing == InitPricing /\ [][NextPricing]_vars

\* ------------------------------------ overlapping ingestions (SpecOverlap)
\* r1 is a report of u1 created under the last strategy: freshly uploaded, or
\* parsed before with 11 rows and priced 199.00; r2 is a parsed report of u2
InitOverlap ==
    /\ \E parsed \in BOOLEAN :
          /\ reports = [rid \in ReportIds |->
                          IF rid = "r2"
                          THEN ReportRow("u2", 4, "parsed", "not_payed",
                                         19900, FALSE)
                          ELSE IF parsed
                          THEN ReportRow("u1", 4, "parsed", "not_payed",
                                         19900, FALSE)
                          ELSE ReportRow("u1", 4, "in_progress", "not_payed",
                                         Null, FALSE)]
          /\ rows = [rid \in ReportIds |->
                       IF rid = "r2" THEN RowValues(1, MkRows(11, "C"))
                       ELSE IF parsed THEN RowValues(1, MkRows(11, "A"))
                       ELSE {}]
    /\ promocodes = [c \in {"PROMO123"} |->
                        PromocodeRow(c, NullStr, 0, 0, 1, 15)]
    /\ now = 0
    /\ req = [p \in Procs |-> IdleReq]
    /\ gwRequests = 0
    /\ payments = <<>>
    /\ adj = [c \in DOMAIN promocodes |-> [decs |-> 0, incs |-> 0, by |-> {}]]
    /\ rest0 = [c \in DOMAIN promocodes |-> promocodes[c].rest_usages]
    /\ lowest = [rid \in ReportIds |-> reports[rid].price]
    /\ started = 0
    /\ blobs = {}
    /\ queue = <<>>

\* the bodies the parser sends for r1: parses of 0, 11 and 31 rows, and a
\* failed parse
OverlapBodies ==
    {ParsedResult(0, "A", <<2020, 2020>>),
     ParsedResult(11, "B", <<2020, 2021>>),
     ParsedResult(31, "A", <<2020, 2020>>),
     NoInput}

\* any slot takes an ingestion of r1 while another one is running
NextOverlap ==
    \/ \E p \in Procs, parsing_result \in OverlapBodies :
          upload_parsing_result(p, SERVICE, "r1", parsing_result)
    \/ \E p \in Procs : ParseDeleteRows(p)
    \/ \E p \in Procs : ParseUpdateParsed(p)
    \/ \E p \in Procs : ParseAddRows(p)
    \/ \E p \in Procs : ParseUpdateNotParsed(p)
    \/ Tick

SpecOverlap == InitOverlap /\ [][NextOverlap]_vars

\* ------------------------- uploads, then their ingestion (SpecLifecycle)
\* the first report an upload creates, after r1 and r2
FirstUploaded == "n3"

\* the reports uploads may create: one for each upload that may be in flight
\* when the reports of the user are counted
LifecycleUploaded == {"n" \o ToString(i) : i \in 3..(2 + MaxProcs)}

\* r1 is an earlier upload of u1, made under the last strategy, r2 one of u2;
\* neither has been parsed yet
InitLifecycle ==
    /\ reports = [rid \in ReportIds |->
                    IF rid = "r1"
                    THEN ReportRow("u1", 4, "in_progress", "not_payed", Null,
                                   FALSE)
                    ELSE ReportRow("u2", 0, "in_progress", "not_payed", Null,
                                   FALSE)]
    /\ rows = [rid \in ReportIds \cup LifecycleUploaded |-> {}]
    /\ promocodes = [c \in {"PROMO123"} |->
                        PromocodeRow(c, NullStr, 0, 0, 1, 15)]
    /\ now = 0
    /\ req = [p \in Procs |-> IdleReq]
    /\ gwRequests = 0
    /\ payments = <<>>
    /\ adj = [c \in DOMAIN promocodes |-> [decs |-> 0, incs |-> 0, by |-> {}]]
    /\ rest0 = [c \in DOMAIN promocodes |-> promocodes[c].rest_usages]
    /\ lowest = [rid \in ReportIds |-> reports[rid].price]
    /\ started = 0
    /\ blobs = {}
    /\ queue = <<>>

\* u1 uploads reports; the parser sends its bodies for r1 and for the
\* uploaded reports, and u1 asks for the detailed rows of each
NextLifecycle ==
    \/ \E p \in Procs, filename \in {max_report_filename_length,
                                    max_report_filename_length + 1} :
          upload_report(p, "u1", filename, 10)
    \/ \E p \in Procs : UploadGetReports(p)
    \/ \E p \in Procs : UploadFileRead(p)
    \/ \E p \in Procs : UploadAddNewReport(p)
    \/ \E p \in Procs, answer \in CollaboratorAnswers :
          UploadSaveReport(p, answer)
    \/ \E p \in Procs, answer \in CollaboratorAnswers :
          UploadSendParseMessage(p, answer)
    \/ \E p \in Procs, rid \in {"r1"} \cup LifecycleUploaded,
          parsing_result \in OverlapBodies :
          upload_parsing_result(p, SERVICE, rid, parsing_result)
    \/ \E p \in Procs : ParseDeleteRows(p)
    \/ \E p \in Procs : ParseUpdateParsed(p)
    \/ \E p \in Procs : ParseAddRows(p)
    \/ \E p \in Procs : ParseUpdateNotParsed(p)
    \/ \E p \in Procs, rid \in {"r1"} \cup LifecycleUploaded :
          get_report_detailed_rows(p, rid, "u1", Null)
    \/ \E p \in Procs : RowsSelect(p)
    \/ Tick

SpecLifecycle == InitLifecycle /\ [][NextLifecycle]_vars

\* ----------------------- payments next to ingestions (SpecFrame)
\* r1 is a parsed report of u1 with 11 rows, priced 199.00 and not payed; r2
\* is a parsed report of u2 created under the free strategy, priced 0;
\* PROMO123 can be used once
InitFrame ==
    /\ reports = [rid \in ReportIds |->
                    IF rid = "r1"
                    THEN ReportRow("u1", 4, "parsed", "not_payed", 19900,
                                   FALSE)
                    ELSE ReportRow("u2", 1, "parsed", "not_payed", 0, FALSE)]
    /\ rows = [rid \in ReportIds |->
                 IF rid = "r1" THEN RowValues(1, MkRows(11, "A"))
                 ELSE RowValues(1, MkRows(11, "C"))]
    /\ promocodes = [c \in {"PROMO123"} |->
                        PromocodeRow(c, NullStr, 0, MaxNow, 1, 15)]
    /\ now = 0
    /\ req = [p \in Procs |-> IdleReq]
    /\ gwRequests = 0
    /\ payments = <<>>
    /\ adj = [c \in DOMAIN promocodes |-> [decs |-> 0, incs |-> 0, by |-> {}]]
    /\ rest0 = [c \in DOMAIN promocodes |-> promocodes[c].rest_usages]
    /\ lowest = [rid \in ReportIds |-> reports[rid].price]
    /\ started = 0
    /\ blobs = {}
    /\ queue = <<>>

\* report_id and requester of the detailed views: each owner for their report
FrameReads == {<<"r1", "u1">>, <<"r2", "u2">>}

\* the notifications of the gateway for the payments it created
FrameBodies == {body \in WebhookBodies : body.pay_idx > 0}

\* u1 pays for r1 without and with the promo code, the gateway notifies, the
\* parser sends results for r1, and the owners read the rows
NextFrame ==
    \/ \E p \in Procs, promo \in {NullStr, "promo123"} :
          create_payment(p, "r1", "u1", promo)
    \/ \E p \in Procs : PayGetPromocode(p)
    \/ \E p \in Procs, answer \in {"ok", "bad_status"} : PayGateway(p, answer)
    \/ \E p \in Procs : PayUpdateStatus(p)
    \/ \E p \in Procs : PayUpdatePromocode(p)
    \/ \E p \in Procs, body \in FrameBodies : accept_yookassa_webhook(p, body)
    \/ \E p \in Procs : HookUpdateStatus(p)
    \/ \E p \in Procs : HookUpdatePromocode(p)
    \/ \E p \in Procs, parsing_result \in OverlapBodies :
          upload_parsing_result(p, SERVICE, "r1", parsing_result)
    \/ \E p \in Procs : ParseDeleteRows(p)
    \/ \E p \in Procs : ParseUpdateParsed(p)
    \/ \E p \in Procs : ParseAddRows(p)
    \/ \E p \in Procs : ParseUpdateNotParsed(p)
    \/ \E p \in Procs : get_report_rows(p, "r1", "u1", Null)
    \/ \E p \in Procs, inp \in FrameReads :
          get_report_detailed_rows(p, inp[1], inp[2], Null)
    \/ \E p \in Procs : RowsSelect(p)
    \/ Tick

SpecFrame == InitFrame /\ [][NextFrame]_vars

\* =================================================================== claims
Min(a, b) == IF a <= b THEN a ELSE b

InFlight(p) == ~Idle(p)

\* C1: an ingestion of a parsed result for a report whose stored price is p,
\* for which the pricing engine computes q, persists min(p, q) when p is not
\* null and q when p is null.
C1_PersistedPrice ==
    [][ParseUpdateParsed(1) =>
         LET rid == req[1].report_id
             p == reports[rid].price
             q == calc(Len(req[1].input.rows), reports[rid].created_at).price
         IN  reports'[rid].price = IF p # Null THEN Min(p, q) ELSE q]_vars

\* a report priced 99.00 whose new parse computes more keeps 99.00
C1_Witness ==
    /\ req[1].kind = "parse" /\ req[1].pc = "gather"
    /\ req[1].todo = {"add_report_rows"}
    /\ req[1].snap.price # Null
    /\ calc(Len(req[1].input.rows), req[1].snap.created_at).price
          > req[1].snap.price
    /\ reports[req[1].report_id].price = req[1].snap.price

\* C2: over any sequence of ingestions for one report, once the price has
\* been non-null every non-null price stored later is at most every non-null
\* price stored earlier.
C2_NeverRaised ==
    \A rid \in ReportIds :
        reports[rid].price # Null => reports[rid].price <= lowest[rid]

\* the conditions under which C3 says a payment creation is rejected
Rejectable(rid, user) ==
    \/ ~ReportVisible(rid)
    \/ reports[rid].user_id # user
    \/ reports[rid].parse_status # "parsed"
    \/ reports[rid].price = Null
    \/ reports[rid].payment_status = "payed"
    \/ reports[rid].payment_status = "in_progress"

\* C3: a payment creation for a report that is absent or soft-deleted, not
\* owned by the requester, not parsed, without price, payed or with a payment
\* in progress is rejected (404, 403 or 409) and ends at once: no gateway
\* request, payment_status and every rest_usages unchanged.
C3_GuardsReject ==
    [][\A p \in Procs, inp \in PaymentInputs :
          create_payment(p, inp[1], inp[2], inp[3]) /\ Rejectable(inp[1], inp[2])
          => /\ req'[p].pc = "done"
             /\ req'[p].result \in {403, 404, 409}
             /\ gwRequests' = gwRequests
             /\ reports' = reports
             /\ promocodes' = promocodes]_vars

C3_Witness ==
    \E p \in Procs :
        /\ req[p].kind = "pay" /\ req[p].pc = "done"
        /\ req[p].result = 409
        /\ req[p].error_key = "report_payment_in_progress"
        /\ reports["r1"].payment_status = "in_progress"
        /\ gwRequests = 0
        /\ \A c \in DOMAIN promocodes : promocodes[c].rest_usages = rest0[c]

\* C4: a payment creation by the owner of a parsed, priced report whose
\* payment_status is not_payed, error or in_progress is not rejected, sends
\* one request to the gateway and, the gateway having created the payment,
\* sets payment_status to in_progress and answers 201.
C4_CreatesPayment ==
    [][\A p \in Procs :
          /\ \A inp \in PaymentInputs :
                /\ create_payment(p, inp[1], inp[2], inp[3])
                /\ ReportVisible(inp[1])
                /\ reports[inp[1]].user_id = inp[2]
                /\ reports[inp[1]].parse_status = "parsed"
                /\ reports[inp[1]].price # Null
                /\ reports[inp[1]].payment_status
                      \in {"not_payed", "error", "in_progress"}
                => req'[p].pc \in {"get_promocode", "gateway"}
          /\ (\E answer \in GatewayAnswers : PayGateway(p, answer))
                => gwRequests' = gwRequests + 1
          /\ PayUpdateStatus(p) /\ ReportVisible(req[p].report_id)
                => reports'[req[p].report_id].payment_status = "in_progress"
          /\ req[p].kind = "pay" /\ InFlight(p) /\ req'[p].pc = "done"
             /\ req[p].pc # "gateway"
                => req'[p].result = 201]_vars

\* C5: a successful payment creation decrements the rest_usages of the
\* supplied promo code by exactly 1 when the promo outcome is success, and
\* no step of a payment creation changes a promo counter otherwise (no code
\* supplied, not_exist, expired).
C5_PromoDecrement ==
    [][\A p \in Procs :
          req[p].kind = "pay" /\ InFlight(p) /\ req'[p] # req[p]
          => IF req'[p].result = 201 /\ req[p].promocode_usage = "success"
             THEN /\ req[p].promo \in DOMAIN promocodes
                  /\ promocodes' =
                        [promocodes EXCEPT ![req[p].promo].rest_usages = @ - 1]
             ELSE promocodes' = promocodes]_vars

C5_Witness ==
    \E p \in Procs :
        /\ req[p].kind = "pay" /\ req[p].pc = "done" /\ req[p].result = 201
        /\ req[p].promocode_usage = "success"
        /\ promocodes["PROMO123"].rest_usages = rest0["PROMO123"] - 1
        /\ promocodes["SALE5"].rest_usages = rest0["SALE5"]

\* the payment status C6 names for a notification
ExpectedStatus(body) ==
    CASE body.event = "payment.succeeded" -> "payed"
      [] body.event = "payment.canceled"
            /\ body.reason = "expired_on_confirmation" -> "not_payed"
      [] body.event = "payment.canceled"
            /\ body.reason # "expired_on_confirmation" -> "error"
      [] OTHER -> NullStr

\* C6: a webhook with a valid token that names an existing non-deleted report
\* goes on to write the payment status, and writes payed for succeeded,
\* not_payed for cancelled with reason expired_on_confirmation and error for
\* cancelled with any other reason, whatever the status was before.
C6_WebhookStatus ==
    [][\A p \in Procs :
          /\ \A body \in WebhookBodies :
                /\ accept_yookassa_webhook(p, body)
                /\ body.token_ok
                /\ body.event \in {"payment.succeeded", "payment.canceled"}
                /\ ReportVisible(body.report_id)
                => req'[p].pc = "update_payment_status" /\ req'[p].body = body
          /\ HookUpdateStatus(p) /\ ReportVisible(req[p].report_id)
                => reports'[req[p].report_id].payment_status
                      = ExpectedStatus(req[p].body)]_vars

C6_Witness ==
    \E p \in Procs :
        /\ req[p].kind = "hook" /\ req[p].pc = "done" /\ req[p].result = 200
        /\ req[p].payment_status = "not_payed"
        /\ reports["r1"].payment_status = "not_payed"
        /\ reports["r1"].payment_status_updated_at # Null

\* payment i used a promo code, its creation and exactly one notification of
\* it have been handled to the end, and nothing else adjusted the code
SettledOnce(i) ==
    /\ payments[i].promocode # NullStr
    /\ payments[i].created
    /\ payments[i].hooks = 1
    /\ adj[payments[i].promocode].by \subseteq {i}

\* C7: for a payment created with a successfully applied promo code, a
\* webhook that resolves it to error leaves rest_usages at the value it had
\* before the payment was created; a webhook that resolves it to payed or
\* not_payed leaves it one below that value.
C7_Compensation ==
    \A i \in 1..Len(payments) :
        SettledOnce(i) =>
            LET rest == promocodes[payments[i].promocode].rest_usages
            IN  /\ payments[i].resolved = "error"
                      => rest = payments[i].before
                /\ payments[i].resolved \in {"payed", "not_payed"}
                      => rest = payments[i].before - 1

C7_Witness ==
    \E i \in 1..Len(payments) :
        /\ SettledOnce(i)
        /\ payments[i].resolved = "error"
        /\ promocodes[payments[i].promocode].rest_usages = payments[i].before
        /\ adj[payments[i].promocode].decs = 1
        /\ adj[payments[i].promocode].incs = 1

\* C8: the second delivery of a notification that has been handled to the
\* end changes nothing: payment_status and every rest_usages stay as the
\* first delivery left them.
C8_DuplicateSafe ==
    [][\A p \in Procs :
          /\ req[p].kind = "hook" /\ InFlight(p) /\ req'[p] # req[p]
          /\ req[p].pay_idx \in 1..Len(payments)
          /\ payments[req[p].pay_idx].hooks >= 1
          /\ payments[req[p].pay_idx].resolved = req[p].payment_status
          => /\ promocodes' = promocodes
             /\ reports[req[p].report_id].payment_status = req[p].payment_status
                   => reports'[req[p].report_id].payment_status
                         = req[p].payment_status]_vars

\* C9: under any interleaving of payment creations and webhooks, rest_usages
\* of every code is its provisioned value minus the decrements issued plus
\* the increments issued.
C9_NoLostUpdate ==
    \A c \in DOMAIN promocodes :
        promocodes[c].rest_usages = rest0[c] - adj[c].decs + adj[c].incs

\* two payment creations and an error webhook have adjusted PROMO123
C9_Witness ==
    /\ adj["PROMO123"].decs = 2
    /\ adj["PROMO123"].incs = 1
    /\ promocodes["PROMO123"].rest_usages = rest0["PROMO123"] - 1

\* C10: a webhook whose token does not verify, whose event is neither
\* succeeded nor cancelled, or whose report_id names no existing non-deleted
\* report ends in a server error at once and changes no payment_status and
\* no rest_usages.
C10_WebhookRejected ==
    [][\A p \in Procs, body \in WebhookBodies :
          /\ accept_yookassa_webhook(p, body)
          /\ \/ ~body.token_ok
             \/ body.event \notin {"payment.succeeded", "payment.canceled"}
             \/ ~ReportVisible(body.report_id)
          => /\ req'[p].pc = "done"
             /\ req'[p].result = 500
             /\ reports' = reports
             /\ promocodes' = promocodes]_vars

C10_Witness ==
    \E p \in Procs :
        /\ req[p].kind = "hook" /\ req[p].pc = "done" /\ req[p].result = 500
        /\ req[p].error_key = "report_not_exists"
        /\ \A c \in DOMAIN promocodes : promocodes[c].rest_usages = rest0[c]
        /\ started = 1

\* C13: the rows a parsed result with M rows leaves, ingested after any
\* earlier result of the same report has been handled to its end: exactly its
\* M rows, numbered 1..M in their order, the rows of other reports untouched.
C13_RowsReplaced ==
    [][ParseAddRows(1) =>
         LET rid == req[1].report_id
             rs == req[1].input.rows
         IN  /\ rows'[rid] = {[row_n |-> i, isin |-> rs[i].isin,
                               income_year |-> rs[i].income_year] :
                                  i \in 1..Len(rs)}
             /\ Cardinality(rows'[rid]) = Len(rs)
             /\ \A o \in ReportIds \ {rid} : rows'[o] = rows[o]]_vars

\* the 11 rows of result B have replaced the 31 rows of result A (priced
\* 299.00), and the rows of r2 are those it started with
C13_Witness ==
    /\ req[1].kind = "parse" /\ req[1].pc = "gather"
    /\ req[1].todo = {"update_parsed_report"}
    /\ reports["r1"].parser_version = "A" /\ reports["r1"].price = 29900
    /\ Cardinality(rows["r1"]) = 11
    /\ \A r \in rows["r1"] : r.isin = "B" /\ r.row_n \in 1..11
    /\ Cardinality(rows["r2"]) = 11

\* C15: the ingestion of a not-parsed result ends with parse_status
\* not_parsed, with price, broker, period, year, parse note and parser
\* version null and with no rows of the report, whatever they were before.
C15_NotParsedClears ==
    [][ParseUpdateNotParsed(1) =>
         LET rid == req[1].report_id
         IN  /\ reports'[rid].parse_status = "not_parsed"
             /\ reports'[rid].price = Null
             /\ reports'[rid].broker = NullStr
             /\ reports'[rid].period = NoPeriod
             /\ reports'[rid].year = Null
             /\ reports'[rid].parse_note = NullStr
             /\ reports'[rid].parser_version = NullStr
             /\ rows'[rid] = {}]_vars

\* a report that was parsed, priced and had rows is cleared
C15_Witness ==
    /\ req[1].kind = "parse" /\ req[1].pc = "done" /\ req[1].result = 200
    /\ reports["r1"].parse_status = "not_parsed"
    /\ reports["r1"].price = Null /\ reports["r1"].broker = NullStr
    /\ lowest["r1"] = 29900
    /\ rows["r1"] = {}

\* a request of slot p has ended with this status
Answered(p, status) == req'[p].pc = "done" /\ req'[p].result = status

\* C11: for a parsed, non-deleted report asked for by its owner, the detailed
\* rows view answers 402 exactly when payment_status is not payed and price
\* is above 0; when payment_status is payed, or price is 0 whatever the
\* payment_status, it goes on to read the rows and answers 200.
C11_DetailedGate ==
    [][\A p \in Procs :
          /\ \A inp \in RowsInputs :
                /\ get_report_detailed_rows(p, inp[1], inp[2], inp[3])
                /\ ReportVisible(inp[1])
                /\ reports[inp[1]].user_id = inp[2]
                /\ reports[inp[1]].parse_status = "parsed"
                => LET ps == reports[inp[1]].payment_status
                       price == reports[inp[1]].price
                   IN  /\ Answered(p, 402)
                             <=> (ps # "payed" /\ price # Null /\ price > 0)
                       /\ (ps = "payed" \/ price = 0)
                             => req'[p].pc = "get_report_rows"
          /\ RowsSelect(p) => Answered(p, 200)]_vars

\* the 11 rows of the free report r1, whose payment failed, are returned
C11_Witness ==
    \E p \in Procs :
        /\ req[p].kind = "detailed" /\ req[p].pc = "done"
        /\ req[p].result = 200 /\ Len(req[p].out) = 11
        /\ reports["r1"].price = 0 /\ reports["r1"].payment_status = "error"
        /\ reports["r2"].is_deleted
        /\ started = 1

\* C12: the rows view and the detailed rows view answer 404 for a report
\* that is absent or soft-deleted, otherwise 403 for a requester who is not
\* the owner, otherwise 409 for a report that is not parsed; the simple view
\* refuses nothing else, whatever the payment state.
C12_RowsGuards ==
    [][\A p \in Procs, inp \in RowsInputs :
          LET rid == inp[1]
              simple == get_report_rows(p, inp[1], inp[2], inp[3])
              detailed == get_report_detailed_rows(p, inp[1], inp[2], inp[3])
          IN  simple \/ detailed =>
                IF ~ReportVisible(rid) THEN Answered(p, 404)
                ELSE IF reports[rid].user_id # inp[2] THEN Answered(p, 403)
                ELSE IF reports[rid].parse_status # "parsed"
                THEN Answered(p, 409)
                ELSE simple => req'[p].pc = "get_report_rows"]_vars

\* a foreign user asks for the rows of r1, which is not parsed: 403, not 409
C12_Witness ==
    \E p \in Procs :
        /\ req[p].kind = "rows" /\ req[p].pc = "done" /\ req[p].result = 403
        /\ reports["r1"].parse_status = "in_progress"
        /\ reports["r2"].is_deleted
        /\ started = 1

\* C14: in every state, between the steps of an ingestion and with
\* ingestions of one report overlapping included, the rows of each report
\* carry the row numbers 1..N, without gap and without duplicate.
C14_DenseRowNumbers ==
    \A rid \in ReportIds :
        /\ {r.row_n : r \in rows[rid]} = 1..Cardinality(rows[rid])
        /\ \A r, q \in rows[rid] : r.row_n = q.row_n => r = q

\* two ingestions of r1 overlap: one has stored its rows, the other has
\* deleted the rows and has its own still to add
C14_Witness ==
    /\ req[1].kind = "parse" /\ req[2].kind = "parse"
    /\ req[1].report_id = "r1" /\ req[2].report_id = "r1"
    /\ req[1].pc = "gather" /\ "add_report_rows" \notin req[1].todo
    /\ req[2].pc = "gather" /\ "add_report_rows" \in req[2].todo
    /\ Len(req[2].input.rows) = 11
    /\ rows["r1"] # {}

\* C16: a DELETE by the owner of a non-deleted report goes on to delete the
\* rows of that report and to set is_deleted and deleted_at on it; neither
\* step changes another report or the rows of another report, and with no
\* other request around the report is left deleted and without rows.
C16_DeleteEffect ==
    [][\A p \in Procs :
          LET rid == req[p].report_id
          IN  /\ \A inp \in AccessInputs :
                    /\ delete_report(p, inp[1], inp[2])
                    /\ ReportVisible(inp[1])
                    /\ reports[inp[1]].user_id = inp[2]
                    => req'[p].pc = "delete_report_rows"
                          /\ reports' = reports /\ rows' = rows
              /\ DeleteRows(p)
                    => /\ rows'[rid] = {}
                       /\ \A o \in ReportIds \ {rid} : rows'[o] = rows[o]
                       /\ reports' = reports
              /\ DeleteSetDeleted(p) /\ ReportVisible(rid)
                    => /\ reports'[rid].is_deleted
                       /\ reports'[rid].deleted_at = req[p].at
                       /\ req[p].at \in 0..now
                       /\ \A o \in ReportIds \ {rid} : reports'[o] = reports[o]
                       /\ rows' = rows
                       /\ started = 1 => rows'[rid] = {}
                       /\ Answered(p, 204)]_vars

\* r1, parsed with rows and priced 199.00, is deleted; r2 keeps its rows
C16_Witness ==
    \E p \in Procs :
        /\ req[p].kind = "delete" /\ req[p].pc = "done" /\ req[p].result = 204
        /\ reports["r1"].is_deleted /\ reports["r1"].deleted_at \in 0..now
        /\ reports["r1"].price = 19900
        /\ rows["r1"] = {}
        /\ ~reports["r2"].is_deleted /\ Cardinality(rows["r2"]) = 11
        /\ started = 1

\* C17: a soft deletion does not remove the row data of the report: no step
\* of a DELETE changes the rows of the report, so that after the DELETE has
\* succeeded they are still in the store.
C17_RowsKept ==
    [][\A p \in Procs :
          DeleteRows(p) \/ DeleteSetDeleted(p)
          => rows'[req[p].report_id] = rows[req[p].report_id]]_vars

\* the store is left as it is
StoreUnchanged ==
    /\ reports' = reports /\ rows' = rows
    /\ promocodes' = promocodes /\ gwRequests' = gwRequests

\* slot p takes a request of the user role for this report and requester,
\* one that is answered on the first read of the report when it is refused
UserRequest(p, rid, user) ==
    \/ delete_report(p, rid, user)
    \/ \E year \in {Null, 2021} : get_report_rows(p, rid, user, year)
    \/ \E year \in {Null, 2021} : get_report_detailed_rows(p, rid, user, year)
    \/ \E promo \in {NullStr, "promo123"} :
          get_report_price(p, rid, user, promo)
    \/ \E promo \in {NullStr, "promo123"} :
          create_payment(p, rid, user, promo)

\* C18: every request that starts on a soft-deleted report (get, rows,
\* detailed rows, price, payment creation, ingestion, delete) answers 404 and
\* changes nothing; GET /reports lists no deleted report; and no step of any
\* request resets is_deleted or changes deleted_at of a deleted report.
C18_DeletedStaysHidden ==
    [][ /\ \A p \in Procs, rid \in ReportIds :
             reports[rid].is_deleted =>
                /\ \A user \in Users :
                      /\ UserRequest(p, rid, user)
                            => Answered(p, 404) /\ StoreUnchanged
                      /\ get_report(p, rid, user)
                            => req'[p].snap = NoSnap /\ StoreUnchanged
                /\ \A inp \in AccessParseInputs :
                      inp[2] = rid /\ inp[1] = SERVICE
                         /\ upload_parsing_result(p, inp[1], inp[2], inp[3])
                      => Answered(p, 404) /\ StoreUnchanged
        /\ \A p \in Procs :
             GetReportParts(p) /\ req[p].snap = NoSnap
             => Answered(p, 404) /\ StoreUnchanged
        /\ \A p \in Procs, user \in Users :
             get_reports(p, user)
             => \A rid \in req'[p].listed : ~reports[rid].is_deleted
        /\ \A rid \in ReportIds :
             reports[rid].is_deleted
             => /\ reports'[rid].is_deleted
                /\ reports'[rid].deleted_at = reports[rid].deleted_at]_vars

\* r1 was deleted at instant 0; a second DELETE at instant 1 answers 404 and
\* deleted_at is still 0
C18_Witness ==
    \E p, q \in Procs :
        /\ req[p].kind = "delete" /\ req[p].pc = "done" /\ req[p].result = 204
        /\ req[q].kind = "delete" /\ req[q].pc = "done" /\ req[q].result = 404
        /\ reports["r1"].is_deleted /\ reports["r1"].deleted_at = 0
        /\ ~reports["r2"].is_deleted
        /\ now = 1

\* C19: a request of the user role for a non-deleted report of another user
\* (get, delete, rows, detailed rows, price, payment creation) answers 403
\* and changes nothing, and GET /reports lists only reports of the requester.
C19_OwnerOnly ==
    [][ /\ \A p \in Procs, rid \in ReportIds, user \in Users :
             /\ UserRequest(p, rid, user)
             /\ ~reports[rid].is_deleted
             /\ reports[rid].user_id # user
             => Answered(p, 403) /\ StoreUnchanged
        /\ \A p \in Procs, rid \in ReportIds, user \in Users :
             /\ get_report(p, rid, user)
             /\ ~reports[rid].is_deleted
             /\ reports[rid].user_id # user
             => req'[p].snap.user_id = reports[rid].user_id /\ StoreUnchanged
        /\ \A p \in Procs :
             /\ GetReportParts(p)
             /\ req[p].snap # NoSnap /\ req[p].snap.user_id # req[p].user
             => Answered(p, 403) /\ req'[p].parts = {} /\ StoreUnchanged
        /\ \A p \in Procs, user \in Users :
             get_reports(p, user)
             => /\ \A rid \in req'[p].listed : reports[rid].user_id = user
                /\ StoreUnchanged]_vars

\* u2 lists the reports: r2 only, although r1 of u1 is there
C19_Witness ==
    \E p \in Procs :
        /\ req[p].kind = "list" /\ req[p].pc = "done" /\ req[p].result = 200
        /\ req[p].listed = {"r2"}
        /\ ~reports["r1"].is_deleted /\ reports["r1"].user_id = "u1"
        /\ started = 1

\* C20: an ingestion is let through only for a requester of role service;
\* for role user or admin it answers 403 and no report and no row changes.
C20_ServiceOnly ==
    [][\A inp \in ParseInputs :
          upload_parsing_result(1, inp[1], inp[2], inp[3])
          => IF inp[1] = SERVICE
             THEN ~Answered(1, 403)
             ELSE Answered(1, 403) /\ reports' = reports /\ rows' = rows]_vars

\* a requester who is not the parser was refused; nothing was ingested
C20_Witness ==
    /\ req[1].kind = "parse" /\ req[1].pc = "done" /\ req[1].result = 403
    /\ req[1].error_key = "forbidden"
    /\ reports["r1"].parse_status = "in_progress" /\ rows["r1"] = {}
    /\ started = 1

\* the reports table, the object storage and the parse queue are left as
\* they are
UploadStoresUnchanged ==
    reports' = reports /\ blobs' = blobs /\ queue' = queue

\* C21: a successful upload creates exactly one report, owned by the
\* uploader, with parse_status in_progress, payment_status not_payed, price
\* null and is_deleted false; it writes exactly one blob, under the key
\* templated from the report_id, and enqueues exactly one parse job, which
\* carries that report_id and that key.
C21_UploadCreates ==
    [][\A p \in Procs :
          /\ UploadAddNewReport(p) =>
                LET rid == req'[p].created
                IN  /\ rid \notin DOMAIN reports
                    /\ DOMAIN reports' = DOMAIN reports \cup {rid}
                    /\ \A r \in DOMAIN reports : reports'[r] = reports[r]
                    /\ blobs' = blobs /\ queue' = queue
          /\ UploadSaveReport(p, "ok") =>
                LET key == report_body_key(req[p].created)
                IN  /\ \A b \in blobs : b.key # key
                    /\ blobs' = blobs \cup {[key |-> key,
                                             size |-> req[p].size]}
                    /\ reports' = reports /\ queue' = queue
          /\ UploadSendParseMessage(p, "ok") =>
                LET rid == req'[p].created
                    key == report_body_key(rid)
                IN  /\ Answered(p, 201)
                    /\ reports' = reports /\ blobs' = blobs
                    /\ Len(queue') = Len(queue) + 1
                    /\ rid \in DOMAIN reports'
                    /\ reports'[rid].user_id = req[p].user
                    /\ reports'[rid].parse_status = "in_progress"
                    /\ reports'[rid].payment_status = "not_payed"
                    /\ reports'[rid].price = Null
                    /\ ~reports'[rid].is_deleted
                    /\ Cardinality({b \in blobs' : b.key = key}) = 1
                    /\ Cardinality({i \in DOMAIN queue' :
                                      queue'[i].report_id = rid}) = 1
                    /\ \A i \in DOMAIN queue' :
                          queue'[i].report_id = rid =>
                              queue'[i].storage_key = key]_vars

\* two uploads have been answered 201; their reports, blobs and parse jobs
\* are there
C21_Witness ==
    /\ \A p \in Procs :
          /\ req[p].pc = "done" /\ req[p].kind = "upload_report"
          /\ req[p].result = 201
    /\ Cardinality(DOMAIN reports) = 4
    /\ Cardinality(blobs) = 2
    /\ Len(queue) = 2

\* C22: an upload rejected because the filename is longer than the maximum
\* (422), because the user already has max_user_reports non-deleted reports
\* (409), or because the file is larger than the maximum size (413) creates
\* no report row, writes no blob and enqueues no parse job.
C22_RejectedCreatesNothing ==
    [][\A p \in Procs :
          /\ \A inp \in UploadInputs :
                upload_report(p, inp[1], inp[2], inp[3]) =>
                    /\ UploadStoresUnchanged
                    /\ Answered(p, 422)
                          <=> inp[2] > max_report_filename_length
          /\ UploadGetReports(p) =>
                LET n == Cardinality({rid \in DOMAIN reports :
                                        /\ reports[rid].user_id = req[p].user
                                        /\ ~reports[rid].is_deleted})
                IN  /\ UploadStoresUnchanged
                    /\ Answered(p, 409) <=> n >= max_user_reports
          /\ UploadFileRead(p) =>
                /\ UploadStoresUnchanged
                /\ Answered(p, 413) => req[p].size > max_report_size
                /\ req'[p].pc = "add_new_report"
                      => req[p].size <= max_report_size
                /\ req'[p].pc \in {"done", "add_new_report", "file_read"}
                /\ req'[p].pc = "done" => Answered(p, 413)
          /\ (/\ req'[p].pc = "done" /\ req'[p].kind = "upload_report"
              /\ req'[p].result \in {422, 409, 413})
                => req'[p].created = NullStr]_vars

\* one upload has been answered 409 and another 413, and nothing was stored
C22_Witness ==
    /\ \E p \in Procs : req[p].pc = "done" /\ req[p].result = 409
    /\ \E p \in Procs : req[p].pc = "done" /\ req[p].result = 413
    /\ DOMAIN reports = ReportIds
    /\ blobs = {} /\ queue = <<>>

\* C23: no user ever has more than max_user_reports non-deleted reports, also
\* when uploads of the same user overlap.
C23_MaxReportsPerUser ==
    \A user \in Users :
        Cardinality({rid \in DOMAIN reports :
                        /\ reports[rid].user_id = user
                        /\ ~reports[rid].is_deleted}) <= max_user_reports

Abs(x) == IF x < 0 THEN -x ELSE x

\* C24: get_price classifies in this precedence: no code supplied gives
\* not_set; a code without a stored record gives not_exist; a record with
\* rest_usages <= 0 or personal to another user than the report's owner gives
\* not_exist, also when the current time is outside its validity window; a
\* usable record with the current time outside [valid_from, valid_to] gives
\* expired; otherwise success.  The discount is the code's percent for success
\* and 0 otherwise, and final_price is start_price * (1 - discount / 100)
\* rounded to 2 decimals: 156.32 with 15 percent gives 132.87.
C24_PromoPrecedence ==
    (req[1].pc = "done" /\ req[1].kind = "get_price") =>
        LET report_user == req[1].args[1]
            report_price == req[1].args[2]
            found == req[1].args[3][1]
            promocode_not_exist == req[1].args[3][2]
            promocode == req[1].args[3][3]
            t == req[1].args[4]
            price == req[1].ret
            unusable == \/ promocode.rest_usages <= 0
                        \/ /\ promocode.user_id # NullStr
                           /\ promocode.user_id # report_user
            outside == t < promocode.valid_from \/ t > promocode.valid_to
        IN  /\ (~found /\ ~promocode_not_exist)
                  => price.promocode_usage = "not_set"
            /\ (~found /\ promocode_not_exist)
                  => price.promocode_usage = "not_exist"
            /\ (found /\ unusable) => price.promocode_usage = "not_exist"
            /\ (found /\ ~unusable /\ outside)
                  => price.promocode_usage = "expired"
            /\ (found /\ ~unusable /\ ~outside)
                  => price.promocode_usage = "success"
            /\ price.discount = IF price.promocode_usage = "success"
                                THEN promocode.discount ELSE 0
            /\ price.start_price = report_price
            /\ Abs(100 * price.final_price
                     - report_price * (100 - price.discount)) <= 50
            /\ (report_price = 15632 /\ price.discount = 15)
                  => price.final_price = 13287

\* a price was asked with a code that has no usages left, after the end of
\* its validity window: not_exist, no discount
C24_Witness ==
    /\ req[1].pc = "done" /\ req[1].kind = "get_price"
    /\ req[1].args[3][1]
    /\ req[1].args[3][3].rest_usages = 0
    /\ req[1].args[3][3].valid_to < req[1].args[4]
    /\ req[1].args[2] = 15632
    /\ req[1].ret.promocode_usage = "not_exist"
    /\ req[1].ret.final_price = 15632

\* C25: with the strategies listed in ascending started_at order, calc prices
\* a report with the strategy of the greatest started_at <= created_at, a
\* created_at equal to a started_at selecting that strategy, and raises an
\* error instead of returning a price when created_at is before every
\* started_at.
C25_StrategyChoice ==
    (req[1].pc = "done" /\ req[1].kind = "calc") =>
        LET n_rows == req[1].args[1]
            created_at == req[1].args[2]
            begun == {i \in DOMAIN Strategies :
                           Strategies[i].started_at <= created_at}
        IN  /\ IsSorted([i \in DOMAIN Strategies |->
                           Strategies[i].started_at])
            /\ (begun = {}) <=> req[1].ret.err
            /\ \A i \in begun :
                  (\A j \in begun :
                      Strategies[j].started_at <= Strategies[i].started_at)
                  => req[1].ret =
                        thresholds_calculator(n_rows,
                                              Strategies[i].n_rows_thresholds,
                                              Strategies[i].prices)

\* a report of 11 rows created at the instant the third strategy starts is
\* priced 149.00 by it, not by the second or the fourth
C25_Witness ==
    /\ req[1].pc = "done" /\ req[1].kind = "calc"
    /\ req[1].args = <<11, 3>>
    /\ req[1].ret = [err |-> FALSE, price |-> 14900]

\* C26: the thresholds calculator raises an error when
\* len(thresholds) # len(prices) - 1 or the thresholds are not in ascending
\* order; otherwise, for every row count n >= 0, it returns prices[i] for the
\* smallest i with n <= thresholds[i], and the last price when n exceeds every
\* threshold: thresholds [10, 30, 100] with prices [49, 149, 249, 349] give
\* 49 for 0 and 10, 149 for 11, 249 for 100, 349 for 101.
C26_Thresholds ==
    (req[1].pc = "done" /\ req[1].kind = "thresholds") =>
        LET n == req[1].args[1]
            thresholds == req[1].args[2]
            prices == req[1].args[3]
            ret == req[1].ret
            ascending == \A i, j \in DOMAIN thresholds :
                            i < j => thresholds[i] <= thresholds[j]
        IN  /\ ret.err <=> (Len(thresholds) # Len(prices) - 1 \/ ~ascending)
            /\ ~ret.err =>
                  /\ \A i \in DOMAIN thresholds :
                        (/\ n <= thresholds[i]
                         /\ \A j \in 1..(i - 1) : n > thresholds[j])
                           => ret.price = prices[i]
                  /\ (\A i \in DOMAIN thresholds : n > thresholds[i])
                        => ret.price = prices[Len(prices)]
            /\ (thresholds = <<10, 30, 100>>
                /\ prices = <<4900, 14900, 24900, 34900>>)
                  => ret.price = CASE n \in {0, 10} -> 4900
                                   [] n \in {11, 30} -> 14900
                                   [] n \in {31, 100} -> 24900
                                   [] OTHER -> 34900

\* 10 rows under thresholds [10, 30, 100] are priced 49.00
C26_Witness ==
    /\ req[1].pc = "done" /\ req[1].kind = "thresholds"
    /\ req[1].args = <<10, <<10, 30, 100>>, <<4900, 14900, 24900, 34900>>>>
    /\ req[1].ret = [err |-> FALSE, price |-> 4900]

\* C27: row retrieval with a year filter returns exactly the rows of the
\* report whose income date lies in that calendar year, in ascending row_n
\* order; without the filter it returns all the rows of the report in
\* ascending row_n order; rows of other reports are never returned.
C27_YearFilter ==
    [][\A p \in Procs :
          RowsSelect(p) =>
              LET rid == req[p].report_id
                  year == req[p].year
                  out == req'[p].out
                  wanted == IF reports[rid].is_deleted THEN {}
                            ELSE IF year = Null THEN rows[rid]
                            ELSE {r \in rows[rid] : r.income_year = year}
              IN  /\ {out[i] : i \in DOMAIN out} = wanted
                  /\ \A i, j \in DOMAIN out :
                        i < j => out[i].row_n < out[j].row_n
                  /\ \A i \in DOMAIN out, other \in ReportIds \ {rid} :
                        out[i].isin \notin {r.isin : r \in rows[other]}]_vars

\* the rows of 2021 of a report of 11 rows were asked for while another
\* report has rows too: the six rows numbered 1, 3, .., 11 were returned
C27_Witness ==
    \E p \in Procs :
        /\ req[p].pc = "done" /\ req[p].kind \in {"rows", "detailed"}
        /\ req[p].result = 200
        /\ Len(req[p].out) = 6
        /\ \A i \in 1..6 :
              /\ req[p].out[i].row_n = 2 * i - 1
              /\ req[p].out[i].income_year = 2021
        /\ Cardinality(rows["r1"]) = 11
        /\ Cardinality(rows["r2"]) = 11

\* C28: also when two ingestions of the same report overlap, no ingestion's
\* write raises the stored price: every price written by an ingestion of a
\* parsed result is less than or equal to the non-null price stored
\* immediately before that write.
C28_NoWriteRaisesPrice ==
    [][\A p \in Procs :
          ParseUpdateParsed(p) =>
              LET rid == req[p].report_id
              IN  reports[rid].price # Null =>
                      reports'[rid].price <= reports[rid].price]_vars

\* the state a report is left in by the ingestion of one body alone
LeftBy(rid, body) ==
    IF body.is_parsed /\ body.has_report
    THEN /\ rows[rid] = RowValues(1, body.rows)
         /\ reports[rid].parse_status = "parsed"
         /\ reports[rid].broker = body.broker
         /\ reports[rid].period = body.period
         /\ reports[rid].year = ParsedYear(body.period)
         /\ reports[rid].parser_version = body.version
         /\ reports[rid].price # Null
         /\ reports[rid].price
              <= calc(Len(body.rows), reports[rid].created_at).price
    ELSE /\ rows[rid] = {}
         /\ reports[rid].parse_status = "not_parsed"
         /\ reports[rid].broker = NullStr
         /\ reports[rid].period = NoPeriod
         /\ reports[rid].year = Null
         /\ reports[rid].price = Null

\* C29: when two ingestions of the same report overlap, then after both
\* requests have ended, with success or with an error, the stored rows of the
\* report are exactly the rows of one of the two results, and the parse
\* fields of the report (parse_status, broker, period, year, price) come from
\* that same result.
C29_OneResultWins ==
    (/\ started = 2
     /\ \A p \in {1, 2} :
           /\ req[p].pc = "done" /\ req[p].kind = "parse"
           /\ req[p].result \in {200, 500})
        => \E p \in {1, 2} : LeftBy("r1", req[p].input)

\* C30: once the payment_status of a report is payed it stays payed: no later
\* payment creation and no later webhook delivery, a late or repeated
\* cancelled webhook of an earlier payment attempt included, changes it.
C30_PayedStaysPayed ==
    [][\A rid \in DOMAIN reports :
          reports[rid].payment_status = "payed"
              => reports'[rid].payment_status = "payed"]_vars

\* C31: if the succeeded webhook of a payment is handled while the payment
\* creation that created it has not yet persisted in_progress, the report's
\* payment_status is payed once both handlers have finished: the creation's
\* write, coming after the webhook has set payed, leaves payed.
C31_EarlyWebhookWins ==
    [][\A p \in Procs :
          (/\ PayUpdateStatus(p)
           /\ req[p].pay_idx \in 1..Len(payments)
           /\ payments[req[p].pay_idx].hooks = 1
           /\ payments[req[p].pay_idx].resolved = "payed"
           /\ reports[req[p].report_id].payment_status = "payed")
              => reports'[req[p].report_id].payment_status = "payed"]_vars

\* C32: in every reachable state the rest_usages of a promo code is at most
\* its provisioned value: the increments made by error webhooks never exceed
\* the decrements made by the payment creations that used the code.  Codes
\* adjusted by a notification of a payment made before the start are left
\* out, their decrement being part of the provisioned value.
C32_NeverAboveProvisioned ==
    \A c \in DOMAIN promocodes :
        0 \notin adj[c].by =>
            /\ promocodes[c].rest_usages <= rest0[c]
            /\ adj[c].incs <= adj[c].decs

\* C33: a promo code is applied with outcome success at most as many times
\* as it has usages left: starting from a non-negative value, rest_usages
\* never drops below zero, also when several payment creations that use the
\* same code overlap.
C33_NeverBelowZero ==
    \A c \in DOMAIN promocodes :
        rest0[c] >= 0 => promocodes[c].rest_usages >= 0

\* C34: a soft-deleted report has no rows in the store once the requests that
\* touched it have ended, also when an ingestion of a parse result for the
\* report overlaps its deletion.
C34_DeletedHasNoRows ==
    (\A p \in Procs : ~InFlight(p)) =>
        \A rid \in ReportIds :
            reports[rid].is_deleted => rows[rid] = {}

\* C35: in every state reached through uploads and ingestions of parse
\* results, the price of a report is non-null if and only if its parse_status
\* is parsed, so the check price > 0 of the detailed rows is never evaluated
\* on a null price: no request for detailed rows ends in a server error.
C35_PricedIffParsed ==
    /\ \A rid \in DOMAIN reports :
          (reports[rid].price # Null) <=> (reports[rid].parse_status = "parsed")
    /\ \A p \in Procs :
          (req[p].pc = "done" /\ req[p].kind = "detailed")
              => req[p].result # 500

\* the uploaded report has been parsed and priced, and its owner was given
\* its detailed rows
C35_Witness ==
    /\ FirstUploaded \in DOMAIN reports
    /\ reports[FirstUploaded].parse_status = "parsed"
    /\ reports[FirstUploaded].price # Null
    /\ rows[FirstUploaded] # {}
    /\ \E p \in Procs :
          /\ req[p].pc = "done" /\ req[p].kind = "detailed"
          /\ req[p].result = 200 /\ req[p].out # <<>>

\* C36: if the gateway call of a payment creation fails (a status code other
\* than success, a payment status other than pending, or no confirmation URL
\* in the answer), the request ends in a server error and the payment_status
\* of the report and the rest_usages of every promo code are unchanged.
C36_GatewayFailure ==
    [][\A p \in Procs :
          /\ \A answer \in GatewayAnswers \ {"ok"} :
                PayGateway(p, answer) =>
                    /\ Answered(p, 500)
                    /\ reports' = reports
                    /\ promocodes' = promocodes
          /\ ((\E inp \in PaymentInputs :
                   create_payment(p, inp[1], inp[2], inp[3]))
              \/ PayGetPromocode(p))
                => reports' = reports /\ promocodes' = promocodes]_vars

\* a payment creation with an applicable promo code has ended in a server
\* error after its call of the gateway; the report and the code are as before
C36_Witness ==
    \E p \in Procs :
        /\ req[p].pc = "done" /\ req[p].kind = "pay" /\ req[p].result = 500
        /\ req[p].used_promocode = "PROMO123"
        /\ gwRequests = 1
        /\ payments = <<>>
        /\ reports["r1"].payment_status = "not_payed"
        /\ promocodes["PROMO123"].rest_usages = rest0["PROMO123"]
        /\ adj["PROMO123"].decs = 0

\* C37: external side effects stay consistent with the reports table despite
\* partial failures of an upload: after any upload request has ended, with
\* success or with a failure of the blob write or of the enqueue, every
\* report row that exists has its blob stored and a parse job enqueued for
\* it.  The rows meant are those the uploads have created.
C37_RowHasBlobAndJob ==
    (\A p \in Procs : ~InFlight(p)) =>
        \A rid \in DOMAIN reports \ ReportIds :
            /\ \E b \in blobs : b.key = report_body_key(rid)
            /\ \E i \in DOMAIN queue : queue[i].report_id = rid

\* a step of the handler of slot p: of an ingestion, of a payment creation
\* or of a webhook
IngestionStep(p) ==
    \/ \E parsing_result \in OverlapBodies :
          upload_parsing_result(p, SERVICE, "r1", parsing_result)
    \/ ParseDeleteRows(p) \/ ParseUpdateParsed(p)
    \/ ParseAddRows(p) \/ ParseUpdateNotParsed(p)
PaymentStep(p) ==
    \/ \E promo \in {NullStr, "promo123"} :
          create_payment(p, "r1", "u1", promo)
    \/ PayGetPromocode(p)
    \/ \E answer \in GatewayAnswers : PayGateway(p, answer)
    \/ PayUpdateStatus(p) \/ PayUpdatePromocode(p)
    \/ \E body \in FrameBodies : accept_yookassa_webhook(p, body)
    \/ HookUpdateStatus(p) \/ HookUpdatePromocode(p)

\* C38: an ingestion of a parse result never changes the payment_status,
\* user_id, created_at or is_deleted of a report, and payment creation and
\* webhook handling never change the parse_status, price, parse fields or
\* rows of a report.
C38_Frames ==
    [][\A p \in Procs :
          /\ IngestionStep(p) =>
                \A rid \in DOMAIN reports :
                    /\ reports'[rid].payment_status = reports[rid].payment_status
                    /\ reports'[rid].payment_status_updated_at
                          = reports[rid].payment_status_updated_at
                    /\ reports'[rid].user_id = reports[rid].user_id
                    /\ reports'[rid].created_at = reports[rid].created_at
                    /\ reports'[rid].is_deleted = reports[rid].is_deleted
          /\ PaymentStep(p) =>
                /\ rows' = rows
                /\ \A rid \in DOMAIN reports :
                      /\ reports'[rid].parse_status = reports[rid].parse_status
                      /\ reports'[rid].price = reports[rid].price
                      /\ reports'[rid].parsed_at = reports[rid].parsed_at
                      /\ reports'[rid].broker = reports[rid].broker
                      /\ reports'[rid].period = reports[rid].period
                      /\ reports'[rid].year = reports[rid].year
                      /\ reports'[rid].parse_note = reports[rid].parse_note
                      /\ reports'[rid].parser_version
                            = reports[rid].parser_version]_vars

\* r1 has been payed through a payment and its webhook, and re-parsed since:
\* it carries the new parse and is still payed
C38_Witness ==
    /\ reports["r1"].payment_status = "payed"
    /\ reports["r1"].payment_status_updated_at # Null
    /\ reports["r1"].parser_version = "B"
    /\ reports["r1"].parsed_at # Null
    /\ Len(payments) = 1 /\ payments[1].resolved = "payed"
    /\ \A p \in Procs : ~InFlight(p)

\* the rows of a response as a set
RowSet(out) == {out[i] : i \in DOMAIN out}

\* C39: a rows request of the owner that overlaps a re-ingestion of a parsed
\* result for an already parsed report returns the complete previous row set
\* or the complete new one, never an empty or partial set. Here r1 starts
\* parsed with 11 rows, one ingestion of a parsed result and one rows request
\* of u1 are the only requests, and the ingestion has not failed.
C39_OldOrNewRows ==
    \A p \in Procs, q \in Procs :
        (/\ started = 2
         /\ req[p].kind = "rows" /\ req[p].pc = "done" /\ req[p].result = 200
         /\ req[q].kind = "parse"
         /\ req[q].input.is_parsed /\ req[q].input.has_report
         /\ (req[q].pc = "done" => req[q].result = 200))
        => RowSet(req[p].out) \in {RowValues(1, MkRows(11, "A")),
                                   RowValues(1, req[q].input.rows)}

\* C40: for every non-deleted report, is_ready_to_use is true exactly when a
\* detailed-rows request of the owner is granted, that is answered neither
\* 409 (not parsed) nor 402 (not payed).
C40_ReadyIffGranted ==
    [][\A p \in Procs, inp \in FrameReads :
          (get_report_detailed_rows(p, inp[1], inp[2], Null)
             /\ ReportVisible(inp[1]))
          => (is_ready_to_use(reports[inp[1]])
                <=> ~(req'[p].pc = "done" /\ req'[p].result \in {409, 402}))]_vars

\* r1 has been payed, its flag is set and the owner got the detailed rows;
\* before the payment the flag was not set and the owner was answered 402
C40_Witness ==
    /\ is_ready_to_use(reports["r1"])
    /\ reports["r1"].payment_status = "payed" /\ reports["r1"].price > 0
    /\ \E p \in Procs :
          /\ req[p].kind = "detailed" /\ req[p].pc = "done"
          /\ req[p].result = 200
          /\ Len(req[p].out) = 11 /\ req[p].out[1].isin = "A"

====
